---- MODULE Spec2Model ----
(***************************************************************************)
(* A model of the GameBoy emulator core: the Memory bus, the Clock and its *)
(* timer, the CPU's interrupt machinery, the PPU mode machine of Graphics  *)
(* and the Joypad, as driven by the main loop GameBoy::run.                *)
(*                                                                         *)
(* The 64 KiB arrays are kept as sparse functions: a finite function from  *)
(* addresses to non-zero bytes, every address outside its domain holding   *)
(* 0 (Memory::new fills the arrays with 0).                                *)
(***************************************************************************)
EXTENDS Integers, Sequences, FiniteSets, TLC

VARIABLES
    cpu,        \* CPU: a, b, c, d, e, h, l, f, pc, sp, ime = <<countdown, flag>>, halt
    memory,     \* Memory: memory, boot_rom, rom, cartridge
    clock,      \* Clock: div_counter, timer_counter, timestamp
    graphics,   \* Option<Graphics>: line_y, last_timestamp, last_ppu_mode
    joypad,     \* Joypad: last_keys
    fault,      \* "none", or the panic that ended the process
    overflow_checks, \* the build profile: TRUE panics on integer overflow, FALSE wraps
    incs,       \* history: TIMA increments performed so far
    hist,       \* history: what the last main-loop steps did
    vblanks,    \* history: calls of Graphics::set_vblank_int so far
    wr,         \* history: the last Memory::write_byte call
    frame       \* history: start and VBLANK count of the current PPU frame

vars == <<cpu, memory, clock, graphics, joypad, fault, overflow_checks, incs, vblanks,
         hist, wr, frame>>

(***************************************************************************)
(* Bounds of the model.                                                    *)
(***************************************************************************)
MaxTimerCycles == 520
MaxWrites == 2
MaxCpuCycles == 7
MaxPpuCycles == 34000

(***************************************************************************)
(* utils.rs                                                                *)
(***************************************************************************)
Byte == 0..255

RECURSIVE BitAnd(_, _)
BitAnd(x, y) ==
    IF x = 0 \/ y = 0 THEN 0
    ELSE (x % 2) * (y % 2) + 2 * BitAnd(x \div 2, y \div 2)

BitOr(x, y) == x + y - BitAnd(x, y)

\* flag is a one-bit mask
get_flag(flag_byte, flag) == BitAnd(flag_byte, flag) > 0

set_flag(flag_byte, flag) == BitOr(flag_byte, flag)

reset_flag(flag_byte, flag) == flag_byte - BitAnd(flag_byte, flag)

bytes2word(lsb, msb) == lsb + 256 * msb

get_low(word) == word % 256

get_high(word) == word \div 256

(***************************************************************************)
(* Constants of the sources.                                               *)
(***************************************************************************)
BOOTROM_SIZE == 256
ROM_SIZE == 16384
DMA_ADDRESS == 65350
UNLOAD_BOOT_ADDRESS == 65360
MBC_TYPE_ADDRESS == 327
ROM_SIZE_ADDRESS == 328
OAM_ADDRESS == 65024

DIV_ADDRESS == 65284
TIMA_ADDRESS == 65285
TMA_ADDRESS == 65286
TAC_ADDRESS == 65287
TAC_ENABLE_FLAG == 4
TAC_CLOCK_SELECT == 3

INTERRUPT_FLAG_ADDRESS == 65295
INTERRUPT_ENABLE_ADDRESS == 65535
VBLANK_FLAG == 1
LCD_FLAG == 2
TIMER_FLAG == 4
SERIAL_FLAG == 8
JOYPAD_FLAG == 16

(***************************************************************************)
(* memory.rs                                                               *)
(***************************************************************************)
\* arr with arr[a] = v, kept sparse
Poke(arr, a, v) ==
    IF v = 0
    THEN [x \in DOMAIN arr \ {a} |-> arr[x]]
    ELSE [x \in DOMAIN arr \cup {a} |-> IF x = a THEN v ELSE arr[x]]

Peek(arr, a) == IF a \in DOMAIN arr THEN arr[a] ELSE 0

\* dst[dstStart .. dstStart+len-1] := src[srcStart .. srcStart+len-1]
\* (copy_from_slice; with src = dst it is copy_within, which reads the bytes
\* as they were before the copy)
CopyRange(dst, dstStart, src, srcStart, len) ==
    LET keep == {x \in DOMAIN dst : x < dstStart \/ x >= dstStart + len}
        from == {y \in DOMAIN src : y >= srcStart /\ y < srcStart + len}
        new  == {y - srcStart + dstStart : y \in from}
    IN  [x \in keep \cup new |->
            IF x \in new THEN src[x - dstStart + srcStart] ELSE dst[x]]

EmptyArray == [x \in {} |-> 0]

\* Memory::new
NewMemory ==
    [memory |-> EmptyArray, boot_rom |-> EmptyArray, rom |-> <<>>,
     cartridge |-> "None"]

\* Memory::get_cartridge_type_rom; "panic" is the unimplemented!() arm
get_cartridge_type_rom(rom_data) ==
    LET rom_type == Peek(rom_data.data, MBC_TYPE_ADDRESS)
    IN  CASE rom_type = 0 -> "RomOnly"
          [] rom_type = 1 -> "MBC1"
          [] rom_type = 19 -> "MBC3"
          [] OTHER -> "panic"

rom_bank_num(rom_data) == 2 ^ (Peek(rom_data.data, ROM_SIZE_ADDRESS) + 1)

\* Memory::load_cartidge panics: the header cannot be indexed, the type is
\* unknown, or a bank slice runs past the end of rom_data
load_cartidge_panics(rom_data) ==
    \/ rom_data.len <= ROM_SIZE_ADDRESS + 1
    \/ get_cartridge_type_rom(rom_data) = "panic"
    \/ rom_data.len < ROM_SIZE * rom_bank_num(rom_data)

\* Memory::load_cartidge
load_cartidge(m, rom_data) ==
    LET banks == [i \in 1..rom_bank_num(rom_data) |->
                    CopyRange(EmptyArray, 0, rom_data.data, ROM_SIZE * (i - 1), ROM_SIZE)]
        rom == m.rom \o banks
        m1 == CopyRange(m.memory, BOOTROM_SIZE, rom[1], BOOTROM_SIZE, ROM_SIZE - BOOTROM_SIZE)
        m2 == CopyRange(m1, ROM_SIZE, rom[2], 0, ROM_SIZE)
    IN  [m EXCEPT !.cartridge = get_cartridge_type_rom(rom_data),
                  !.rom = rom,
                  !.memory = m2]

\* Memory::load_boot panics: copy_from_slice needs equal lengths
load_boot_panics(boot_data) == boot_data.len # BOOTROM_SIZE

\* Memory::load_boot
load_boot(m, boot_data) ==
    [m EXCEPT !.boot_rom = boot_data.data,
              !.memory = CopyRange(m.memory, 0, boot_data.data, 0, BOOTROM_SIZE)]

\* Memory::read_byte
read_byte(m, address) == Peek(m.memory, address)

\* Memory::unload_boot panics when rom[0] does not exist
unload_boot_panics(m) == Len(m.rom) = 0

\* an unload_boot that leaves the boot ROM mapped
unload_boot_keep(m) == m

\* Memory::unload_boot
unload_boot(m) ==
    [m EXCEPT !.memory = CopyRange(m.memory, 0, m.rom[1], 0, BOOTROM_SIZE)]

\* a dma with the page number taken as the low byte of the source address
dma_low_byte(m, byte) ==
    [m EXCEPT !.memory = CopyRange(m.memory, OAM_ADDRESS, m.memory, bytes2word(byte, 0), 256)]

\* Memory::dma
dma(m, byte) ==
    LET size == 256
        src == bytes2word(0, byte)
    IN  [m EXCEPT !.memory = CopyRange(m.memory, OAM_ADDRESS, m.memory, src, size)]

\* Memory::write_byte panics: unload_boot without a ROM, or a banking write
\* to an MBC1/MBC3 cartridge (unimplemented!())
write_byte_panics(m, address) ==
    \/ address = UNLOAD_BOOT_ADDRESS /\ unload_boot_panics(m)
    \/ m.cartridge \in {"MBC1", "MBC3"} /\ address < 32768

\* Memory::write_byte, the first match: the boot unmap and the DMA
write_special(m, address, byte) ==
    CASE address = UNLOAD_BOOT_ADDRESS -> unload_boot(m)
      [] address = DMA_ADDRESS -> dma(m, byte)
      [] OTHER -> m

\* a store that ignores the cartridge
write_cartridge_store_all(m, address, byte) ==
    [m EXCEPT !.memory = Poke(@, address, byte)]

\* Memory::write_byte, the second match: the store, by cartridge
write_cartridge(m, address, byte) ==
    CASE m.cartridge = "RomOnly" ->
            IF address >= 32768
            THEN [m EXCEPT !.memory = Poke(@, address, byte)]
            ELSE m
      [] m.cartridge \in {"MBC1", "MBC3"} ->
            IF address >= 32768
            THEN [m EXCEPT !.memory = Poke(@, address, byte)]
            ELSE m  \* unimplemented!(): see write_byte_panics
      [] OTHER ->
            [m EXCEPT !.memory = Poke(@, address, byte)]

\* Memory::write_byte
write_byte(m, address, byte) ==
    write_cartridge(write_special(m, address, byte), address, byte)

(***************************************************************************)
(* The machine: the components of struct GameBoy, with the panic (if any)  *)
(* and the ghost counters threaded through the calls.                       *)
(***************************************************************************)
Machine == [cpu |-> cpu, memory |-> memory, clock |-> clock, graphics |-> graphics,
            joypad |-> joypad, fault |-> fault, incs |-> incs,
            vblanks |-> vblanks]

Ok(gb) == gb.fault = "none"

\* memory.write_byte(address, byte) on the machine
store(gb, address, byte) ==
    IF ~Ok(gb) THEN gb
    ELSE IF write_byte_panics(gb.memory, address)
         THEN [gb EXCEPT !.fault = "write_byte"]
         ELSE [gb EXCEPT !.memory = write_byte(@, address, byte)]

load(gb, address) == read_byte(gb.memory, address)

\* Memory::wrapping_add
wrapping_add(gb, address, value) ==
    store(gb, address, (load(gb, address) + value) % 256)

(***************************************************************************)
(* clock.rs                                                                *)
(***************************************************************************)
\* Clock::new
NewClock == [div_counter |-> 0, timer_counter |-> 0, timestamp |-> 0]

frequency(tac) ==
    LET sel == BitAnd(tac, TAC_CLOCK_SELECT)
    IN  CASE sel = 0 -> 4096
          [] sel = 1 -> 262144
          [] sel = 2 -> 65536
          [] sel = 3 -> 16384

period(tac) == 4194304 \div frequency(tac)

\* interrupt_flags |= flag, written back to IF
raise_interrupt(gb, flag) ==
    store(gb, INTERRUPT_FLAG_ADDRESS, set_flag(load(gb, INTERRUPT_FLAG_ADDRESS), flag))

\* Clock::tick, loop body: memory.write_byte(TIMA_ADDRESS, tma)
reload_tima(gb) == store(gb, TIMA_ADDRESS, load(gb, TMA_ADDRESS))

\* Clock::tick, loop body: timer_counter -= period (and the count of increments)
end_increment(gb, tac) ==
    [gb EXCEPT !.clock.timer_counter = @ - period(tac), !.incs = @ + 1]

\* Clock::tick, loop body: the overflow of TIMA
tima_overflow(gb) ==
    IF load(gb, TIMA_ADDRESS) = 0
    THEN reload_tima(raise_interrupt(gb, TIMER_FLAG))
    ELSE gb

\* tima_overflow without the reload of TIMA from TMA
tima_overflow_no_reload(gb) ==
    IF load(gb, TIMA_ADDRESS) = 0
    THEN raise_interrupt(gb, TIMER_FLAG)
    ELSE gb

\* tima_increment without the reload of TIMA from TMA
tima_increment_no_reload(gb, tac) ==
    end_increment(tima_overflow_no_reload(wrapping_add(gb, TIMA_ADDRESS, 1)), tac)

\* one iteration of the while loop of Clock::tick
tima_increment(gb, tac) ==
    end_increment(tima_overflow(wrapping_add(gb, TIMA_ADDRESS, 1)), tac)

\* tima_loop with `if` for `while`: at most one increment per tick
tima_loop_once(gb, tac) ==
    IF ~Ok(gb) \/ gb.clock.timer_counter < period(tac) THEN gb
    ELSE tima_increment(gb, tac)

\* the while loop of Clock::tick
RECURSIVE tima_loop(_, _)
tima_loop(gb, tac) ==
    IF ~Ok(gb) \/ gb.clock.timer_counter < period(tac) THEN gb
    ELSE tima_loop(tima_increment(gb, tac), tac)

\* Clock::tick: div_counter, DIV and the timestamp
tick_div(gb, mcycles) ==
    [(IF gb.clock.div_counter + mcycles > 255
      THEN wrapping_add(gb, DIV_ADDRESS, 1)
      ELSE gb)
     EXCEPT !.clock.div_counter = (@ + mcycles) % 256,
            !.clock.timestamp = @ + mcycles]

\* Clock::tick: the timer, tac being the TAC register
tick_tima(gb, mcycles, tac) ==
    IF get_flag(tac, TAC_ENABLE_FLAG)
    THEN tima_loop([gb EXCEPT !.clock.timer_counter = @ + 4 * mcycles], tac)
    ELSE gb

\* Clock::tick: the timer
tick_timer(gb, mcycles) == tick_tima(gb, mcycles, load(gb, TAC_ADDRESS))

\* Clock::tick
tick(gb, mcycles) ==
    IF ~Ok(gb) THEN gb
    ELSE tick_timer(tick_div(gb, mcycles), mcycles)

(***************************************************************************)
(* cpu.rs: construction                                                    *)
(***************************************************************************)
\* F(x), x being evaluated before F is applied to its value: the nesting of
\* the evaluation of a long chain of calls stays shallow
Apply(x, F(_)) == CHOOSE r \in {F(v) : v \in {x}} : TRUE

\* Option: None and Some(x)
None == <<>>

Some(x) == <<x>>

\* CPU::new
NewCPU ==
    [a |-> 0, b |-> 0, c |-> 0, d |-> 0, e |-> 0, h |-> 0, l |-> 0, f |-> 0,
     pc |-> 0, sp |-> 0, ime |-> <<None, FALSE>>, halt |-> FALSE]

\* Joypad::new
NewJoypad == [last_keys |-> {}]

(***************************************************************************)
(* cpu.rs: the decoder.  A Register is "A", "B", "C", "D", "E", "H", "L"    *)
(* or "HL", a Register16 "BC", "DE", "HL", "SP" or "AF", a Condition        *)
(* "NonZero", "Zero", "NotCarry" or "Carry"; a SizedInstruction is the      *)
(* name of the Instruction, its arguments and its size.                     *)
(***************************************************************************)
\* OpCode::matches
matches(pattern, mask, code) == BitAnd(code, mask) = pattern

\* Register::get_r
get_r(code) ==
    CASE code % 8 = 0 -> "B"
      [] code % 8 = 1 -> "C"
      [] code % 8 = 2 -> "D"
      [] code % 8 = 3 -> "E"
      [] code % 8 = 4 -> "H"
      [] code % 8 = 5 -> "L"
      [] code % 8 = 6 -> "HL"
      [] code % 8 = 7 -> "A"

\* Register::get_rr: the two registers of 0bxxxyyy
get_rr(code) == <<get_r(code \div 8), get_r(code)>>

\* Register16::get_rr
get_rr16(code, sp) ==
    CASE code % 4 = 0 -> "BC"
      [] code % 4 = 1 -> "DE"
      [] code % 4 = 2 -> "HL"
      [] code % 4 = 3 -> IF sp THEN "SP" ELSE "AF"

\* Condition::get_cond
get_cond(code) ==
    CASE code % 4 = 0 -> "NonZero"
      [] code % 4 = 1 -> "Zero"
      [] code % 4 = 2 -> "NotCarry"
      [] code % 4 = 3 -> "Carry"

\* ByteOP::get_high_nibble
get_high_nibble(byte) == byte \div 16

\* `opcode & 1 << k != 0`
opcode_bit(opcode, k) == (opcode \div (2 ^ k)) % 2 = 1

\* Some(SizedInstruction { instruction, size })
Sized(instruction, args, size) ==
    Some([instruction |-> instruction, args |-> args, size |-> size])

\* n as SignedByte
as_signed(n) == IF n >= 128 THEN n - 256 ELSE n

\* memory.read_byte(address + 1), memory.read_word(address + 1)
operand_byte(m, address) == read_byte(m, (address + 1) % 65536)
operand_word(m, address) ==
    bytes2word(read_byte(m, (address + 1) % 65536), read_byte(m, (address + 2) % 65536))

\* the instruction named by nibble among four, with the name for Register::HL
by_nibble(nibble, first, names, r) ==
    IF r = "HL" THEN Sized(names[nibble - first + 1][2], <<>>, 1)
    ELSE Sized(names[nibble - first + 1][1], <<r>>, 1)

\* SizedInstruction::decode, LD1
decode_ld1(lr, rr) ==
    CASE lr = "HL" /\ rr = "HL" -> Sized("HALT", <<>>, 1)
      [] lr = "HL" /\ rr # "HL" -> Sized("LD_HL_R", <<rr>>, 1)
      [] lr # "HL" /\ rr = "HL" -> Sized("LD_R_HL", <<lr>>, 1)
      [] OTHER -> Sized("LD_R_R", <<lr, rr>>, 1)

\* SizedInstruction::decode, LD6
decode_ld6(opcode) ==
    IF opcode_bit(opcode, 3)
    THEN Sized(<<"LD_A_BC", "LD_A_DE", "LD_A_HL_I", "LD_A_HL_D">>[get_high_nibble(opcode) + 1], <<>>, 1)
    ELSE Sized(<<"LD_BC_A", "LD_DE_A", "LD_HL_A_I", "LD_HL_A_D">>[get_high_nibble(opcode) + 1], <<>>, 1)

\* SizedInstruction::decode, ROT_ACC
decode_rot_acc(opcode) ==
    IF opcode_bit(opcode, 3)
    THEN IF opcode_bit(opcode, 4) THEN Sized("RRA", <<>>, 1) ELSE Sized("RRCA", <<>>, 1)
    ELSE IF opcode_bit(opcode, 4) THEN Sized("RLA", <<>>, 1) ELSE Sized("RLCA", <<>>, 1)

\* the instruction with or without Register::HL
with_hl(r, name, name_hl, args) ==
    IF r = "HL" THEN [instruction |-> name_hl, args |-> args, size |-> 1]
    ELSE [instruction |-> name, args |-> args \o <<r>>, size |-> 1]

\* SizedInstruction::decode_cb
decode_cb(m, address) ==
    LET opcode == read_byte(m, address)
        r == get_r(opcode)
        b == (opcode \div 8) % 8
    IN  Some(IF matches(0, 192, opcode)
             THEN IF opcode_bit(opcode, 3)
                  THEN with_hl(r, <<"RRC", "RR", "SRA", "SRL">>[get_high_nibble(opcode) + 1],
                               <<"RRC_HL", "RR_HL", "SRA_HL", "SRL_HL">>[get_high_nibble(opcode) + 1],
                               <<>>)
                  ELSE with_hl(r, <<"RLC", "RL", "SLA", "SWAP">>[get_high_nibble(opcode) + 1],
                               <<"RLC_HL", "RL_HL", "SLA_HL", "SWAP_HL">>[get_high_nibble(opcode) + 1],
                               <<>>)
             ELSE with_hl(r, <<"BIT", "RES", "SET">>[opcode \div 64],
                          <<"BIT_HL", "RES_HL", "SET_HL">>[opcode \div 64], <<b>>))

\* SizedInstruction::decode, CB: the size of the prefixed instruction plus one
decode_prefixed(sized_instruction) ==
    IF sized_instruction = None THEN None
    ELSE Some([sized_instruction[1] EXCEPT !.size = @ + 1])

\* SizedInstruction::decode, the chain of matches from NOP to ARITH_OP_C_N
decode_first(m, address, opcode, rest) ==
    IF matches(0, 255, opcode) THEN Sized("NOP", <<>>, 1)
    ELSE IF matches(64, 192, opcode) THEN decode_ld1(get_rr(opcode)[1], get_rr(opcode)[2])
    ELSE IF matches(6, 199, opcode)
    THEN IF get_r(opcode \div 8) = "HL"
         THEN Sized("LD_HL_N", <<operand_byte(m, address)>>, 2)
         ELSE Sized("LD_R_N", <<get_r(opcode \div 8), operand_byte(m, address)>>, 2)
    ELSE IF matches(234, 239, opcode)
    THEN Sized(IF opcode_bit(opcode, 4) THEN "LD_A_NN" ELSE "LD_NN_A", <<operand_word(m, address)>>, 3)
    ELSE IF matches(226, 239, opcode)
    THEN Sized(IF opcode_bit(opcode, 4) THEN "LDH_A_C" ELSE "LDH_C_A", <<>>, 1)
    ELSE IF matches(224, 239, opcode)
    THEN Sized(IF opcode_bit(opcode, 4) THEN "LDH_A_N" ELSE "LDH_N_A", <<operand_byte(m, address)>>, 2)
    ELSE IF matches(2, 199, opcode) THEN decode_ld6(opcode)
    ELSE IF matches(1, 207, opcode)
    THEN Sized("LD_RR_NN", <<get_rr16(opcode \div 16, TRUE), operand_word(m, address)>>, 3)
    ELSE IF matches(8, 255, opcode) THEN Sized("LD_NN_SP", <<operand_word(m, address)>>, 3)
    ELSE IF matches(248, 254, opcode)
    THEN IF opcode % 2 = 1 THEN Sized("LD_SP_HL", <<>>, 1)
         ELSE Sized("LD_HL_SP", <<as_signed(operand_byte(m, address))>>, 2)
    ELSE IF matches(193, 203, opcode)
    THEN Sized(IF opcode_bit(opcode, 2) THEN "PUSH" ELSE "POP", <<get_rr16(opcode \div 16, FALSE)>>, 1)
    ELSE IF matches(128, 200, opcode)
    THEN by_nibble(get_high_nibble(opcode), 8,
                   <<<<"ADD_R", "ADD_HL">>, <<"SUB_R", "SUB_HL">>,
                     <<"AND_R", "AND_HL">>, <<"OR_R", "OR_HL">>>>, get_r(opcode))
    ELSE IF matches(136, 200, opcode)
    THEN by_nibble(get_high_nibble(opcode), 8,
                   <<<<"ADC_R", "ADC_HL">>, <<"SBC_R", "SBC_HL">>,
                     <<"XOR_R", "XOR_HL">>, <<"CP_R", "CP_HL">>>>, get_r(opcode))
    ELSE IF matches(198, 207, opcode)
    THEN Sized(<<"ADD_N", "SUB_N", "AND_N", "OR_N">>[get_high_nibble(opcode) - 11],
               <<operand_byte(m, address)>>, 2)
    ELSE IF matches(206, 207, opcode)
    THEN Sized(<<"ADC_N", "SBC_N", "XOR_N", "CP_N">>[get_high_nibble(opcode) - 11],
               <<operand_byte(m, address)>>, 2)
    ELSE rest

\* SizedInstruction::decode, the chain of matches from INC_DEC_R to JR_CC
decode_second(m, address, opcode, rest) ==
    IF matches(4, 198, opcode)
    THEN IF opcode % 2 = 0
         THEN Some(with_hl(get_r(opcode \div 8), "INC_R", "INC_HL", <<>>))
         ELSE Some(with_hl(get_r(opcode \div 8), "DEC_R", "DEC_HL", <<>>))
    ELSE IF matches(55, 247, opcode)
    THEN Sized(IF opcode_bit(opcode, 3) THEN "CCF" ELSE "SCF", <<>>, 1)
    ELSE IF matches(3, 199, opcode)
    THEN Sized(IF opcode_bit(opcode, 3) THEN "DEC_RR" ELSE "INC_RR",
               <<get_rr16(opcode \div 16, TRUE)>>, 1)
    ELSE IF matches(196, 230, opcode)
    THEN IF opcode % 2 # 0
         THEN Sized("CALL", <<operand_word(m, address)>>, 3)
         ELSE Sized("CALL_CC", <<get_cond(opcode \div 8), operand_word(m, address)>>, 3)
    ELSE IF matches(201, 255, opcode) THEN Sized("RET", <<>>, 1)
    ELSE IF matches(192, 231, opcode) THEN Sized("RET_CC", <<get_cond(opcode \div 8)>>, 1)
    ELSE IF matches(217, 255, opcode) THEN Sized("RETI", <<>>, 1)
    ELSE IF matches(199, 199, opcode) THEN Sized("RST", <<((opcode \div 8) % 8) * 8>>, 1)
    ELSE IF matches(195, 255, opcode) THEN Sized("JP_NN", <<operand_word(m, address)>>, 3)
    ELSE IF matches(233, 255, opcode) THEN Sized("JP_HL", <<>>, 1)
    ELSE IF matches(194, 231, opcode)
    THEN Sized("JP_CC_NN", <<get_cond(opcode \div 8), operand_word(m, address)>>, 3)
    ELSE IF matches(24, 255, opcode)
    THEN Sized("JR", <<as_signed(operand_byte(m, address))>>, 2)
    ELSE IF matches(32, 231, opcode)
    THEN Sized("JR_CC", <<get_cond(opcode \div 8), as_signed(operand_byte(m, address))>>, 2)
    ELSE rest

\* SizedInstruction::decode, the chain of matches from DAA to IR
decode_third(m, address, opcode) ==
    IF matches(39, 255, opcode) THEN Sized("DAA", <<>>, 1)
    ELSE IF matches(9, 207, opcode)
    THEN Sized("ADD_HL_RR", <<get_rr16(opcode \div 16, TRUE)>>, 1)
    ELSE IF matches(232, 255, opcode)
    THEN Sized("ADD_SP_E", <<as_signed(operand_byte(m, address))>>, 2)
    ELSE IF matches(47, 239, opcode)
    THEN Sized(IF opcode_bit(opcode, 4) THEN "CCF" ELSE "CPL", <<>>, 1)
    ELSE IF matches(7, 231, opcode) THEN decode_rot_acc(opcode)
    ELSE IF matches(203, 255, opcode)
    THEN decode_prefixed(decode_cb(m, (address + 1) % 65536))
    ELSE IF matches(243, 247, opcode)
    THEN Sized(IF opcode_bit(opcode, 3) THEN "EI" ELSE "DI", <<>>, 1)
    ELSE None

\* SizedInstruction::decode
decode(m, address) ==
    decode_first(m, address, read_byte(m, address),
                 decode_second(m, address, read_byte(m, address),
                               decode_third(m, address, read_byte(m, address))))

\* SizedInstruction::decode panics: `address + 1` overflows (in a build with
\* overflow checks), or read_word indexes the array past its end
decode_panics(address, sized_instruction) ==
    /\ sized_instruction # None
    /\ \/ address = 65535 /\ sized_instruction[1].size >= 2 /\ overflow_checks
       \/ address = 65534 /\ sized_instruction[1].size = 3

(***************************************************************************)
(* cpu.rs: the interrupt master enable, ime = <<countdown, flag>>          *)
(***************************************************************************)
\* CPU::get_ime
get_ime(c) == c.ime[2]

\* CPU::ime_enable with the enable taking effect one retirement earlier
ime_enable_one_step(c) ==
    IF c.ime[1] = None THEN [c EXCEPT !.ime[1] = Some(1)] ELSE c

\* CPU::ime_enable
ime_enable(c) ==
    IF c.ime[1] = None THEN [c EXCEPT !.ime[1] = Some(2)] ELSE c

\* CPU::ime_enable_no_delay
ime_enable_no_delay(c) == [c EXCEPT !.ime[2] = TRUE]

\* CPU::ime_disable that leaves a pending countdown in place
ime_disable_keep_countdown(c) == [c EXCEPT !.ime[2] = FALSE]

\* CPU::ime_disable
ime_disable(c) == [c EXCEPT !.ime = <<None, FALSE>>]

\* self.ime_enable_no_delay() on the machine
enable_no_delay(gb) == IF Ok(gb) THEN [gb EXCEPT !.cpu = ime_enable_no_delay(@)] ELSE gb

\* CPU::ime_step
ime_step(c) ==
    IF c.ime[1] # None
    THEN LET delay == c.ime[1][1] - 1
         IN  IF delay = 0
             THEN [c EXCEPT !.ime = <<None, TRUE>>]
             ELSE [c EXCEPT !.ime[1] = Some(delay)]
    ELSE c

(***************************************************************************)
(* cpu.rs: the registers and the flags.  c is the CPU.                      *)
(***************************************************************************)
ZERO_FLAG == 128
SUBTRACT_FLAG == 64
HALF_CARRY_FLAG == 32
CARRY_FLAG == 16

\* the ^ and ! operators on bytes
BitXor(x, y) == BitOr(x, y) - BitAnd(x, y)
BitNot(x) == 255 - x

\* CPU::get_flag
cpu_get_flag(c, flag) == BitAnd(c.f, flag) > 0

\* CPU::set_flag
cpu_set_flag(c, flag) == [c EXCEPT !.f = BitOr(@, flag)]

\* CPU::reset_flag
cpu_reset_flag(c, flag) == [c EXCEPT !.f = BitAnd(@, 255 - flag)]

\* CPU::reset_all_flags
reset_all_flags(c) == [c EXCEPT !.f = 0]

\* reset_flag(flag); if cond { set_flag(flag) }
flag_if(c, flag, cond) == IF cond THEN cpu_set_flag(c, flag) ELSE cpu_reset_flag(c, flag)

\* if cond { set_flag(flag) }
set_if(c, flag, cond) == IF cond THEN cpu_set_flag(c, flag) ELSE c

\* CPU::zero_flag
zero_flag(c, result) == flag_if(c, ZERO_FLAG, result = 0)

\* CPU::half_carry_flag_add
half_carry_flag_add(c, b1, b2) == flag_if(c, HALF_CARRY_FLAG, (b1 % 16) + (b2 % 16) > 15)

\* CPU::half_carry_flag_add16
half_carry_flag_add16(c, w1, w2) ==
    flag_if(c, HALF_CARRY_FLAG, (w1 % 4096) + (w2 % 4096) > 4095)

\* CPU::half_carry_flag_adc
half_carry_flag_adc(c, b1, b2, cf) ==
    flag_if(c, HALF_CARRY_FLAG, (b1 % 16) + (b2 % 16) + cf > 15)

\* CPU::half_carry_flag_sub
half_carry_flag_sub(c, b1, b2) == flag_if(c, HALF_CARRY_FLAG, (b1 % 16) < (b2 % 16))

\* CPU::half_carry_flag_sbc
half_carry_flag_sbc(c, b1, b2, cf) ==
    flag_if(c, HALF_CARRY_FLAG, (b1 % 16) < (b2 % 16) + cf)

\* CPU::get_register; Register::HL panics
get_register(c, reg) ==
    CASE reg = "A" -> c.a
      [] reg = "B" -> c.b
      [] reg = "C" -> c.c
      [] reg = "D" -> c.d
      [] reg = "E" -> c.e
      [] reg = "H" -> c.h
      [] reg = "L" -> c.l

\* CPU::set_register; Register::HL panics
set_register(c, reg, byte) ==
    CASE reg = "A" -> [c EXCEPT !.a = byte]
      [] reg = "B" -> [c EXCEPT !.b = byte]
      [] reg = "C" -> [c EXCEPT !.c = byte]
      [] reg = "D" -> [c EXCEPT !.d = byte]
      [] reg = "E" -> [c EXCEPT !.e = byte]
      [] reg = "H" -> [c EXCEPT !.h = byte]
      [] reg = "L" -> [c EXCEPT !.l = byte]

\* CPU::get_register16
get_register16(c, reg) ==
    CASE reg = "SP" -> c.sp
      [] reg = "BC" -> bytes2word(c.c, c.b)
      [] reg = "DE" -> bytes2word(c.e, c.d)
      [] reg = "AF" -> bytes2word(c.f, c.a)
      [] reg = "HL" -> bytes2word(c.l, c.h)

\* CPU::set_register16 of AF with the low byte stored as it is
set_af_unmasked(c, word) == [c EXCEPT !.a = get_high(word), !.f = get_low(word)]

\* CPU::set_register16, the AF arm
set_af(c, word) == [c EXCEPT !.a = get_high(word), !.f = BitAnd(get_low(word), 240)]

\* CPU::set_register16
set_register16(c, reg, word) ==
    CASE reg = "SP" -> [c EXCEPT !.sp = word]
      [] reg = "BC" -> [c EXCEPT !.b = get_high(word), !.c = get_low(word)]
      [] reg = "DE" -> [c EXCEPT !.d = get_high(word), !.e = get_low(word)]
      [] reg = "AF" -> set_af(c, word)
      [] reg = "HL" -> [c EXCEPT !.h = get_high(word), !.l = get_low(word)]

\* CPU::get_hl, CPU::set_hl
get_hl(c) == get_register16(c, "HL")
set_hl(c, word) == set_register16(c, "HL", word)

\* CPU::get_condition
get_condition(c, cc) ==
    CASE cc = "NonZero" -> ~cpu_get_flag(c, ZERO_FLAG)
      [] cc = "Zero" -> cpu_get_flag(c, ZERO_FLAG)
      [] cc = "NotCarry" -> ~cpu_get_flag(c, CARRY_FLAG)
      [] cc = "Carry" -> cpu_get_flag(c, CARRY_FLAG)

\* self.get_flag(CARRY_FLAG) as Byte
carry_byte(c) == IF cpu_get_flag(c, CARRY_FLAG) THEN 1 ELSE 0

(***************************************************************************)
(* cpu.rs: the arithmetic of CPU::execute, on the CPU alone.               *)
(***************************************************************************)
\* ADD_R, ADD_N, ADD_HL
add(c, value) ==
    [flag_if(cpu_reset_flag(half_carry_flag_add(zero_flag(c, (c.a + value) % 256),
                                                c.a, value),
                            SUBTRACT_FLAG),
             CARRY_FLAG, c.a + value > 255)
     EXCEPT !.a = (c.a + value) % 256]

\* the flags of SUB_R, SUB_N, SUB_HL and of CP_R, CP_N, CP_HL
compare(c, value) ==
    flag_if(cpu_set_flag(half_carry_flag_sub(zero_flag(c, (c.a - value) % 256),
                                             c.a, value),
                         SUBTRACT_FLAG),
            CARRY_FLAG, c.a < value)

\* SUB_R, SUB_N, SUB_HL
sub(c, value) == [compare(c, value) EXCEPT !.a = (c.a - value) % 256]

\* AND_R, AND_N, AND_HL
and(c, value) ==
    cpu_reset_flag(cpu_reset_flag(cpu_set_flag(zero_flag([c EXCEPT !.a = BitAnd(c.a, value)],
                                                         BitAnd(c.a, value)),
                                               HALF_CARRY_FLAG),
                                  SUBTRACT_FLAG),
                   CARRY_FLAG)

\* OR_R, OR_N, OR_HL and XOR_R, XOR_N, XOR_HL: result is a | value or a ^ value
logic(c, result) == [zero_flag(reset_all_flags(c), result) EXCEPT !.a = result]

\* ADC_R, ADC_N, ADC_HL
adc(c, value, cf) ==
    [flag_if(cpu_reset_flag(half_carry_flag_adc(zero_flag(c, (c.a + value + cf) % 256),
                                                c.a, value, cf),
                            SUBTRACT_FLAG),
             CARRY_FLAG, c.a + value + cf > 255)
     EXCEPT !.a = (c.a + value + cf) % 256]

\* SBC_R, SBC_N, SBC_HL
sbc(c, value, cf) ==
    [flag_if(cpu_set_flag(half_carry_flag_sbc(zero_flag(c, (c.a - value - cf) % 256),
                                              c.a, value, cf),
                          SUBTRACT_FLAG),
             CARRY_FLAG, c.a - value - cf < 0)
     EXCEPT !.a = (c.a - value - cf) % 256]

\* the flags of INC_R, INC_HL
inc_flags(c, value) ==
    cpu_reset_flag(half_carry_flag_add(zero_flag(c, (value + 1) % 256), value, 1),
                   SUBTRACT_FLAG)

\* the flags of DEC_R, DEC_HL
dec_flags(c, value) ==
    cpu_set_flag(half_carry_flag_sub(zero_flag(c, (value - 1) % 256), value, 1),
                 SUBTRACT_FLAG)

\* ADD_HL_RR
add_hl(c, reg_val) ==
    set_hl(flag_if(cpu_reset_flag(half_carry_flag_add16(c, get_hl(c), reg_val),
                                  SUBTRACT_FLAG),
                   CARRY_FLAG, get_hl(c) + reg_val > 65535),
           (get_hl(c) + reg_val) % 65536)

\* `e_i16 as Word`
signed_word(e) == e % 65536

\* the flags of LD_HL_SP and ADD_SP_E with the carries taken from the signed sum
sp_flags_signed(c, e) ==
    set_if(set_if(reset_all_flags(c), HALF_CARRY_FLAG, (c.sp % 16) + e > 15),
           CARRY_FLAG, (c.sp % 256) + e > 255)

\* the flags of LD_HL_SP and ADD_SP_E
sp_flags(c, e) ==
    set_if(set_if(reset_all_flags(c), HALF_CARRY_FLAG,
                  (c.sp % 16) + (signed_word(e) % 16) > 15),
           CARRY_FLAG, (c.sp % 256) + (signed_word(e) % 256) > 255)

\* self.sp.wrapping_add_signed(e.into())
wrapping_add_signed(word, e) == (word + e) % 65536

\* BIT, BIT_HL
bit_flags(c, value, b) ==
    zero_flag(cpu_set_flag(cpu_reset_flag(c, SUBTRACT_FLAG), HALF_CARRY_FLAG),
              (value \div (2 ^ b)) % 2)

\* CPL
cpl(c) ==
    cpu_set_flag(cpu_set_flag([c EXCEPT !.a = BitNot(@)], SUBTRACT_FLAG), HALF_CARRY_FLAG)

\* SCF
scf(c) ==
    cpu_reset_flag(cpu_reset_flag(cpu_set_flag(c, CARRY_FLAG), SUBTRACT_FLAG),
                   HALF_CARRY_FLAG)

\* CCF
ccf(c) ==
    flag_if(cpu_reset_flag(cpu_reset_flag(c, SUBTRACT_FLAG), HALF_CARRY_FLAG),
            CARRY_FLAG, ~cpu_get_flag(c, CARRY_FLAG))

\* DAA, the first adjustment of an addition: `if carry || self.a > 0x99`
daa_add_high(c, carry) ==
    IF carry \/ c.a > 153
    THEN cpu_set_flag([c EXCEPT !.a = (@ + 96) % 256], CARRY_FLAG)
    ELSE c

\* a second adjustment that looks at the half carry only
daa_add_low_half_only(c, half_carry) ==
    IF half_carry THEN [c EXCEPT !.a = (@ + 6) % 256] ELSE c

\* DAA, the second adjustment of an addition: `if half_carry || (self.a & 0xF) > 0x9`
daa_add_low(c, half_carry) ==
    IF half_carry \/ (c.a % 16) > 9 THEN [c EXCEPT !.a = (@ + 6) % 256] ELSE c

\* DAA, the adjustments of a subtraction
daa_sub_high(c, carry) == IF carry THEN [c EXCEPT !.a = (@ - 96) % 256] ELSE c
daa_sub_low(c, half_carry) == IF half_carry THEN [c EXCEPT !.a = (@ - 6) % 256] ELSE c

\* DAA, the adjustments
daa_adjust(c, half_carry, carry, sub_flag) ==
    IF ~sub_flag THEN daa_add_low(daa_add_high(c, carry), half_carry)
    ELSE daa_sub_low(daa_sub_high(c, carry), half_carry)

\* DAA, from `self.reset_flag(HALF_CARRY_FLAG)`
daa_flags(c) == zero_flag(cpu_reset_flag(c, HALF_CARRY_FLAG), c.a)

\* DAA
daa(c) ==
    daa_flags(daa_adjust(c, cpu_get_flag(c, HALF_CARRY_FLAG), cpu_get_flag(c, CARRY_FLAG),
                         cpu_get_flag(c, SUBTRACT_FLAG)))

\* the rotations and shifts: result and the bit moved out, by instruction
shifted(name, value, old_carry) ==
    CASE name \in {"RL", "RLA"} -> <<((2 * value) % 256) + old_carry, value \div 128>>
      [] name \in {"RLC", "RLCA"} -> <<((2 * value) % 256) + (value \div 128), value \div 128>>
      [] name \in {"RR", "RRA"} -> <<(value \div 2) + 128 * old_carry, value % 2>>
      [] name \in {"RRC", "RRCA"} -> <<(value \div 2) + 128 * (value % 2), value % 2>>
      [] name = "SLA" -> <<(2 * value) % 256, value \div 128>>
      [] name = "SRA" -> <<(value \div 2) + 128 * (value \div 128), value % 2>>
      [] name = "SRL" -> <<value \div 2, value % 2>>
      [] name = "SWAP" -> <<(value \div 16) + 16 * (value % 16), 0>>

\* flags left as they were
shift_keep_flags(c, result) == c

\* the flags of RL .. SWAP (CB-prefixed): reset_all_flags, zero_flag, the carry
shift_flags(c, result) ==
    set_if(zero_flag(reset_all_flags(c), result[1]), CARRY_FLAG, result[2] # 0)

\* the flags of RLA, RLCA, RRA, RRCA: no zero_flag
shift_flags_a(c, result) == set_if(reset_all_flags(c), CARRY_FLAG, result[2] # 0)

(***************************************************************************)
(* cpu.rs: PC, SP and the stack.  pc and sp are u16: an addition that      *)
(* leaves 0..0xFFFF panics in a build with overflow checks and wraps       *)
(* otherwise.                                                              *)
(***************************************************************************)
\* self.pc += size
add_pc(gb, size) ==
    IF ~Ok(gb) THEN gb
    ELSE IF gb.cpu.pc + size > 65535 /\ overflow_checks
         THEN [gb EXCEPT !.fault = "overflow"]
         ELSE [gb EXCEPT !.cpu.pc = (@ + size) % 65536]

\* self.sp += delta, self.sp -= -delta
add_sp(gb, delta) ==
    IF ~Ok(gb) THEN gb
    ELSE IF (gb.cpu.sp + delta > 65535 \/ gb.cpu.sp + delta < 0) /\ overflow_checks
         THEN [gb EXCEPT !.fault = "overflow"]
         ELSE [gb EXCEPT !.cpu.sp = (@ + delta) % 65536]

\* memory.write_byte(self.sp, byte)
store_sp(gb, byte) == store(gb, gb.cpu.sp, byte)

\* self.sp -= 1; memory.write_byte(self.sp, byte)
push_byte(gb, byte) == store_sp(add_sp(gb, -1), byte)

\* CPU::push_pc_stack
push_pc_stack(gb) ==
    push_byte(push_byte(gb, get_high(gb.cpu.pc)), get_low(gb.cpu.pc))

\* self.pc = word
set_pc(gb, word) == IF Ok(gb) THEN [gb EXCEPT !.cpu.pc = word] ELSE gb

\* CPU::pop_pc_stack: lsb from [sp], msb from [sp + 1], sp += 2
pop_pc_stack(gb) ==
    set_pc(add_sp(add_sp(gb, 1), 1),
           bytes2word(load(gb, gb.cpu.sp), load(gb, (gb.cpu.sp + 1) % 65536)))

(***************************************************************************)
(* cpu.rs: CPU::execute and CPU::handle_interrupts                         *)
(***************************************************************************)
\* apply a function of the CPU record to the machine
on_cpu(gb, c) == IF Ok(gb) THEN [gb EXCEPT !.cpu = c] ELSE gb

\* self.set_hl(self.get_hl() + delta): u16 arithmetic
step_hl(gb, delta) ==
    IF ~Ok(gb) THEN gb
    ELSE IF get_hl(gb.cpu) + delta \notin 0..65535 /\ overflow_checks
         THEN [gb EXCEPT !.fault = "overflow"]
         ELSE [gb EXCEPT !.cpu = set_hl(@, (get_hl(@) + delta) % 65536)]

\* memory.write_byte(self.get_hl(), byte)
store_hl(gb, byte) == IF Ok(gb) THEN store(gb, get_hl(gb.cpu), byte) ELSE gb

\* memory.read_byte(self.get_hl())
load_hl(gb) == load(gb, get_hl(gb.cpu))

\* self.a = byte
set_a(gb, byte) == IF Ok(gb) THEN [gb EXCEPT !.cpu.a = byte] ELSE gb

\* self.set_register16(rr, word) on the machine
set_rr(gb, rr, word) ==
    IF Ok(gb) THEN [gb EXCEPT !.cpu = set_register16(@, rr, word)] ELSE gb

\* the instructions of the arithmetic on a, by operand
AluR == {"ADD_R", "SUB_R", "AND_R", "OR_R", "XOR_R", "CP_R", "ADC_R", "SBC_R"}
AluN == {"ADD_N", "SUB_N", "AND_N", "OR_N", "XOR_N", "CP_N", "ADC_N", "SBC_N"}
AluHL == {"ADD_HL", "SUB_HL", "AND_HL", "OR_HL", "XOR_HL", "CP_HL", "ADC_HL", "SBC_HL"}

\* CPU::execute, the arithmetic on a and a value, before pc and the clock
alu(c, name, value) ==
    CASE name \in {"ADD_R", "ADD_N", "ADD_HL"} -> add(c, value)
      [] name \in {"SUB_R", "SUB_N", "SUB_HL"} -> sub(c, value)
      [] name \in {"AND_R", "AND_N", "AND_HL"} -> and(c, value)
      [] name \in {"OR_R", "OR_N", "OR_HL"} -> logic(c, BitOr(c.a, value))
      [] name \in {"XOR_R", "XOR_N", "XOR_HL"} -> logic(c, BitXor(c.a, value))
      [] name \in {"CP_R", "CP_N", "CP_HL"} -> compare(c, value)
      [] name \in {"ADC_R", "ADC_N", "ADC_HL"} -> adc(c, value, carry_byte(c))
      [] name \in {"SBC_R", "SBC_N", "SBC_HL"} -> sbc(c, value, carry_byte(c))

\* the CB-prefixed rotations and shifts, by operand
ShiftR == {"RL", "RLC", "RR", "RRC", "SLA", "SRA", "SRL", "SWAP"}
ShiftHL == {"RL_HL", "RLC_HL", "RR_HL", "RRC_HL", "SLA_HL", "SRA_HL", "SRL_HL", "SWAP_HL"}
ShiftA == {"RLA", "RLCA", "RRA", "RRCA"}

\* the rotation or shift done by an instruction on (HL)
shift_of(name) ==
    CASE name = "RL_HL" -> "RL"
      [] name = "RLC_HL" -> "RLC"
      [] name = "RR_HL" -> "RR"
      [] name = "RRC_HL" -> "RRC"
      [] name = "SLA_HL" -> "SLA"
      [] name = "SRA_HL" -> "SRA"
      [] name = "SRL_HL" -> "SRL"
      [] name = "SWAP_HL" -> "SWAP"

\* RL(r) .. SWAP(r), before pc and the clock
shift_r(c, name, r) ==
    set_register(shift_flags(c, shifted(name, get_register(c, r), carry_byte(c))), r,
                 shifted(name, get_register(c, r), carry_byte(c))[1])

\* RLA, RLCA, RRA, RRCA, before pc and the clock
shift_a(c, name) ==
    [shift_flags_a(c, shifted(name, c.a, carry_byte(c)))
     EXCEPT !.a = shifted(name, c.a, carry_byte(c))[1]]

\* RL_HL .. SWAP_HL after the first tick: read, flags, tick, write, pc, tick
shift_hl(gb, name, size) ==
    tick(add_pc(store_hl(tick(on_cpu(gb, shift_flags(gb.cpu,
                                         shifted(name, load_hl(gb), carry_byte(gb.cpu)))),
                              1),
                         shifted(name, load_hl(gb), carry_byte(gb.cpu))[1]),
                size),
         2)

\* `value | (1 << b)` and `value & !(1 << b)`
set_bit(value, b) == BitOr(value, 2 ^ b)
res_bit(value, b) == BitAnd(value, 255 - 2 ^ b)

\* SET_HL, RES_HL after the first tick: read, tick, write, pc, tick
modify_hl(gb, result, size) == tick(add_pc(store_hl(tick(gb, 1), result), size), 2)

\* INC_HL, DEC_HL: flags, tick, write, tick, pc
count_hl(gb, c, result, size) == add_pc(tick(store_hl(tick(on_cpu(gb, c), 1), result), 2), size)

\* self.sp -= 1; write the high byte; self.sp -= 1; write the low byte
push_word(gb, data) == push_byte(push_byte(gb, get_high(data)), get_low(data))

\* POP: lsb from [sp], sp += 1, msb from [sp], sp += 1, set_register16
pop_word(gb, rr) ==
    set_rr(add_sp(add_sp(gb, 1), 1), rr,
           bytes2word(load(gb, gb.cpu.sp), load(gb, (gb.cpu.sp + 1) % 65536)))

\* LD_NN_SP: the two writes, `nn + 1` being u16 arithmetic
store_word(gb, nn, word) ==
    IF nn = 65535 /\ overflow_checks
    THEN [store(gb, nn, get_low(word)) EXCEPT !.fault = IF @ = "none" THEN "overflow" ELSE @]
    ELSE store(store(gb, nn, get_low(word)), (nn + 1) % 65536, get_high(word))

\* self.pc = self.pc.wrapping_add_signed(e)
jump_relative(gb, e) == set_pc(gb, wrapping_add_signed(gb.cpu.pc, e))

\* JP_CC_NN, JR_CC, CALL_CC, RET_CC after pc += size: the two branches
jp_cc(gb, cc, nn) == IF get_condition(gb.cpu, cc) THEN tick(set_pc(gb, nn), 4) ELSE tick(gb, 3)
\* a JR_CC that costs 3 machine cycles taken or not
jr_cc_flat(gb, cc, e) ==
    IF get_condition(gb.cpu, cc) THEN tick(jump_relative(gb, e), 3) ELSE tick(gb, 3)
jr_cc(gb, cc, e) == IF get_condition(gb.cpu, cc) THEN tick(jump_relative(gb, e), 3) ELSE tick(gb, 2)
call_cc(gb, cc, nn) ==
    IF get_condition(gb.cpu, cc) THEN tick(set_pc(push_pc_stack(gb), nn), 6) ELSE tick(gb, 3)
ret_cc(gb, cc) == IF get_condition(gb.cpu, cc) THEN tick(pop_pc_stack(gb), 5) ELSE tick(gb, 2)

\* CPU::execute, the arms of the loads
execute_load(gb, name, args, size) ==
    CASE name = "LD_R_R" ->
            tick(add_pc(on_cpu(gb, set_register(gb.cpu, args[1], get_register(gb.cpu, args[2]))),
                        size), 1)
      [] name = "LD_R_N" ->
            tick(add_pc(on_cpu(gb, set_register(gb.cpu, args[1], args[2])), size), 2)
      [] name = "LD_R_HL" ->
            tick(add_pc(on_cpu(gb, set_register(gb.cpu, args[1], load_hl(gb))), size), 2)
      [] name = "LD_RR_NN" -> tick(add_pc(set_rr(gb, args[1], args[2]), size), 3)
      [] name = "LD_A_HL_I" -> tick(add_pc(step_hl(set_a(gb, load_hl(gb)), 1), size), 2)
      [] name = "LD_A_HL_D" -> tick(add_pc(step_hl(set_a(gb, load_hl(gb)), -1), size), 2)
      [] name = "LDH_A_C" ->
            tick(add_pc(set_a(gb, load(gb, bytes2word(gb.cpu.c, 255))), size), 2)
      [] name = "LDH_C_A" ->
            tick(add_pc(store(gb, bytes2word(gb.cpu.c, 255), gb.cpu.a), size), 2)
      [] name = "LD_HL_R" ->
            tick(add_pc(store_hl(gb, get_register(gb.cpu, args[1])), size), 2)
      [] name = "LD_HL_SP" ->
            tick(add_pc(on_cpu(gb, set_hl(sp_flags(gb.cpu, args[1]),
                                          wrapping_add_signed(gb.cpu.sp, args[1]))),
                        size), 3)
      [] name = "LD_HL_A_D" -> tick(add_pc(step_hl(store_hl(gb, gb.cpu.a), -1), size), 2)
      [] name = "LD_HL_A_I" -> tick(add_pc(step_hl(store_hl(gb, gb.cpu.a), 1), size), 2)
      [] name = "LD_A_BC" ->
            tick(set_a(add_pc(gb, size), load(gb, get_register16(gb.cpu, "BC"))), 2)
      [] name = "LD_A_DE" ->
            tick(set_a(add_pc(gb, size), load(gb, get_register16(gb.cpu, "DE"))), 2)
      [] name = "LD_BC_A" ->
            tick(add_pc(store(gb, get_register16(gb.cpu, "BC"), gb.cpu.a), size), 2)
      [] name = "LD_DE_A" ->
            tick(add_pc(store(gb, get_register16(gb.cpu, "DE"), gb.cpu.a), size), 2)
      [] name = "LD_A_NN" ->
            Apply(tick(add_pc(gb, size), 2), LAMBDA g : tick(set_a(g, load(g, args[1])), 2))
      [] name = "LD_NN_A" ->
            tick(add_pc(store(tick(gb, 2), args[1], gb.cpu.a), size), 2)
      [] name = "LDH_N_A" ->
            tick(store(tick(add_pc(gb, 2), 1), bytes2word(args[1], 255), gb.cpu.a), 2)
      [] name = "LDH_A_N" ->
            Apply(tick(add_pc(gb, 2), 1),
                  LAMBDA g : tick(set_a(g, load(g, bytes2word(args[1], 255))), 2))
      [] name = "LD_HL_N" -> tick(add_pc(store_hl(tick(gb, 1), args[1]), size), 2)
      [] name = "LD_NN_SP" -> tick(store_word(add_pc(gb, 3), args[1], gb.cpu.sp), 5)
      [] name = "LD_SP_HL" ->
            tick(add_pc(on_cpu(gb, [gb.cpu EXCEPT !.sp = get_hl(gb.cpu)]), size), 2)
      [] name = "PUSH" -> tick(push_word(add_pc(gb, 1), get_register16(gb.cpu, args[1])), 4)
      [] name = "POP" -> tick(pop_word(add_pc(gb, 1), args[1]), 3)

Loads ==
    {"LD_R_R", "LD_R_N", "LD_R_HL", "LD_RR_NN", "LD_A_HL_I", "LD_A_HL_D", "LDH_A_C",
     "LDH_C_A", "LD_HL_R", "LD_HL_SP", "LD_HL_A_D", "LD_HL_A_I", "LD_A_BC", "LD_A_DE",
     "LD_BC_A", "LD_DE_A", "LD_A_NN", "LD_NN_A", "LDH_N_A", "LDH_A_N", "LD_HL_N",
     "LD_NN_SP", "LD_SP_HL", "PUSH", "POP"}

\* CPU::execute, the arms of the arithmetic, the bit operations and the rotations
execute_arith(gb, name, args, size) ==
    CASE name \in AluR ->
            tick(add_pc(on_cpu(gb, alu(gb.cpu, name, get_register(gb.cpu, args[1]))), size), 1)
      [] name \in AluN -> tick(add_pc(on_cpu(gb, alu(gb.cpu, name, args[1])), size), 2)
      [] name \in AluHL -> tick(add_pc(on_cpu(gb, alu(gb.cpu, name, load_hl(gb))), size), 2)
      [] name = "INC_R" ->
            tick(add_pc(on_cpu(gb, set_register(inc_flags(gb.cpu, get_register(gb.cpu, args[1])),
                                                args[1],
                                                (get_register(gb.cpu, args[1]) + 1) % 256)),
                        size), 1)
      [] name = "DEC_R" ->
            tick(add_pc(on_cpu(gb, set_register(dec_flags(gb.cpu, get_register(gb.cpu, args[1])),
                                                args[1],
                                                (get_register(gb.cpu, args[1]) - 1) % 256)),
                        size), 1)
      [] name = "INC_HL" ->
            count_hl(gb, inc_flags(gb.cpu, load_hl(gb)), (load_hl(gb) + 1) % 256, size)
      [] name = "DEC_HL" ->
            count_hl(gb, dec_flags(gb.cpu, load_hl(gb)), (load_hl(gb) - 1) % 256, size)
      [] name = "INC_RR" ->
            tick(add_pc(set_rr(gb, args[1], (get_register16(gb.cpu, args[1]) + 1) % 65536),
                        size), 2)
      [] name = "DEC_RR" ->
            tick(add_pc(set_rr(gb, args[1], (get_register16(gb.cpu, args[1]) - 1) % 65536),
                        size), 2)
      [] name = "ADD_HL_RR" ->
            tick(add_pc(on_cpu(gb, add_hl(gb.cpu, get_register16(gb.cpu, args[1]))), size), 2)
      [] name = "ADD_SP_E" ->
            tick(add_pc(on_cpu(gb, [sp_flags(gb.cpu, args[1])
                                    EXCEPT !.sp = wrapping_add_signed(gb.cpu.sp, args[1])]),
                        size), 4)
      [] name = "SET" ->
            tick(add_pc(on_cpu(gb, set_register(gb.cpu, args[2],
                                                set_bit(get_register(gb.cpu, args[2]), args[1]))),
                        size), 2)
      [] name = "RES" ->
            tick(add_pc(on_cpu(gb, set_register(gb.cpu, args[2],
                                                res_bit(get_register(gb.cpu, args[2]), args[1]))),
                        size), 2)
      [] name = "BIT" ->
            tick(add_pc(on_cpu(gb, bit_flags(gb.cpu, get_register(gb.cpu, args[2]), args[1])),
                        size), 2)
      [] name = "SET_HL" ->
            Apply(tick(gb, 1), LAMBDA g : modify_hl(g, set_bit(load_hl(g), args[1]), size))
      [] name = "RES_HL" ->
            Apply(tick(gb, 1), LAMBDA g : modify_hl(g, res_bit(load_hl(g), args[1]), size))
      [] name = "BIT_HL" ->
            Apply(tick(gb, 1),
                  LAMBDA g : tick(add_pc(on_cpu(g, bit_flags(g.cpu, load_hl(g), args[1])),
                                         size), 2))
      [] name = "CPL" -> tick(add_pc(on_cpu(gb, cpl(gb.cpu)), size), 1)
      [] name = "SCF" -> tick(add_pc(on_cpu(gb, scf(gb.cpu)), size), 1)
      [] name = "CCF" -> tick(add_pc(on_cpu(gb, ccf(gb.cpu)), size), 1)
      [] name = "DAA" -> tick(add_pc(on_cpu(gb, daa(gb.cpu)), size), 1)
      [] name \in ShiftR -> tick(add_pc(on_cpu(gb, shift_r(gb.cpu, name, args[1])), size), 2)
      [] name \in ShiftA -> tick(add_pc(on_cpu(gb, shift_a(gb.cpu, name)), size), 1)
      [] name \in ShiftHL ->
            Apply(tick(gb, 1), LAMBDA g : shift_hl(g, shift_of(name), size))

Ariths ==
    AluR \cup AluN \cup AluHL \cup ShiftR \cup ShiftA \cup ShiftHL \cup
    {"INC_R", "DEC_R", "INC_HL", "DEC_HL", "INC_RR", "DEC_RR", "ADD_HL_RR", "ADD_SP_E",
     "SET", "RES", "BIT", "SET_HL", "RES_HL", "BIT_HL", "CPL", "SCF", "CCF", "DAA"}

\* CPU::execute, the arms of the jumps, calls and returns and of NOP, EI, DI, HALT
execute_control(gb, name, args, size) ==
    CASE name = "NOP" -> tick(add_pc(gb, size), 1)
      [] name = "JP_NN" -> tick(set_pc(gb, args[1]), 4)
      [] name = "JP_CC_NN" -> jp_cc(add_pc(gb, 3), args[1], args[2])
      [] name = "JP_HL" -> tick(set_pc(gb, get_hl(gb.cpu)), 1)
      [] name = "JR" -> tick(jump_relative(add_pc(gb, 2), args[1]), 3)
      [] name = "JR_CC" -> jr_cc(add_pc(gb, 2), args[1], args[2])
      [] name = "CALL" -> tick(set_pc(push_pc_stack(add_pc(gb, 3)), args[1]), 6)
      [] name = "CALL_CC" -> call_cc(add_pc(gb, 3), args[1], args[2])
      [] name = "RET" -> tick(pop_pc_stack(add_pc(gb, 1)), 4)
      [] name = "RET_CC" -> ret_cc(add_pc(gb, 1), args[1])
      [] name = "RETI" -> tick(enable_no_delay(pop_pc_stack(add_pc(gb, 1))), 4)
      [] name = "RST" -> tick(set_pc(push_pc_stack(add_pc(gb, 1)), bytes2word(args[1], 0)), 4)
      [] name = "EI" -> tick(add_pc(on_cpu(gb, ime_enable(gb.cpu)), size), 1)
      [] name = "DI" -> tick(add_pc(on_cpu(gb, ime_disable(gb.cpu)), size), 1)
      [] name = "HALT" -> tick(add_pc(on_cpu(gb, [gb.cpu EXCEPT !.halt = TRUE]), 1), 1)

\* CPU::execute, the match on the decoded instruction
execute_instruction(gb, ins) ==
    IF ins.instruction \in Loads
    THEN execute_load(gb, ins.instruction, ins.args, ins.size)
    ELSE IF ins.instruction \in Ariths
    THEN execute_arith(gb, ins.instruction, ins.args, ins.size)
    ELSE execute_control(gb, ins.instruction, ins.args, ins.size)

\* CPU::execute, the decoding
execute_decoded(gb, decoded) ==
    IF decode_panics(gb.cpu.pc, decoded) THEN [gb EXCEPT !.fault = "decode_operand"]
    ELSE IF decoded = None THEN [gb EXCEPT !.fault = "decode"]
    ELSE execute_instruction(gb, decoded[1])

\* CPU::execute
execute(gb) ==
    IF ~Ok(gb) THEN gb
    ELSE execute_decoded(gb, decode(gb.memory, gb.cpu.pc))

\* IE & IF
pending(gb) ==
    BitAnd(load(gb, INTERRUPT_ENABLE_ADDRESS), load(gb, INTERRUPT_FLAG_ADDRESS))

\* CPU::handle_interrupts, the halt part, with the halt left only when IME is enabled
wake_needs_ime(gb, flag_bytes) ==
    IF get_ime(gb.cpu) THEN [gb EXCEPT !.cpu.halt = FALSE] ELSE gb

\* CPU::handle_interrupts, the halt part
wake(gb, flag_bytes) ==
    IF flag_bytes # 0 \/ get_ime(gb.cpu) THEN [gb EXCEPT !.cpu.halt = FALSE] ELSE gb

\* CPU::handle_interrupts, the if-else chain: the flag reset and the vector loaded,
\* None when no arm is taken
priority(flag_bytes) ==
    IF get_flag(flag_bytes, VBLANK_FLAG) THEN Some(<<VBLANK_FLAG, 64>>)
    ELSE IF get_flag(flag_bytes, LCD_FLAG) THEN Some(<<LCD_FLAG, 72>>)
    ELSE IF get_flag(flag_bytes, TIMER_FLAG) THEN Some(<<TIMER_FLAG, 80>>)
    ELSE IF get_flag(flag_bytes, SERIAL_FLAG) THEN Some(<<SERIAL_FLAG, 88>>)
    ELSE IF get_flag(flag_bytes, JOYPAD_FLAG) THEN Some(<<JOYPAD_FLAG, 96>>)
    ELSE None

\* CPU::handle_interrupts, the arm taken: reset_flag and self.pc = vector
take_arm(gb, arm) ==
    IF arm = None THEN gb ELSE set_pc(gb, arm[1][2])

\* CPU::handle_interrupts, flag_bytes after the chain
after_arm(flag_bytes, arm) ==
    IF arm = None THEN flag_bytes ELSE reset_flag(flag_bytes, arm[1][1])

\* CPU::handle_interrupts, from `if !self.get_ime()` on
dispatch(gb, flag_bytes) ==
    IF ~get_ime(gb.cpu) THEN gb
    ELSE IF flag_bytes # 0
    THEN store(take_arm(push_pc_stack(on_cpu(gb, ime_disable(gb.cpu))),
                        priority(flag_bytes)),
               INTERRUPT_FLAG_ADDRESS, after_arm(flag_bytes, priority(flag_bytes)))
    ELSE store(gb, INTERRUPT_FLAG_ADDRESS, flag_bytes)

\* CPU::handle_interrupts
handle_interrupts(gb) ==
    IF ~Ok(gb) THEN gb
    ELSE dispatch(wake(gb, pending(gb)), pending(gb))

(***************************************************************************)
(* joypad.rs                                                               *)
(***************************************************************************)
JOYPAD_REGISTER_ADDRESS == 65280
DPAD_FLAG == 16
BUTTONS_FLAG == 32
RIGHT_BUTTON == 238
LEFT_BUTTON == 237
UP_BUTTON == 235
DOWN_BUTTON == 231
A_BUTTON == 222
B_BUTTON == 221
SELECT_BUTTON == 219
START_BUTTON == 215

\* Joypad::new, code_keys
code_keys ==
    (UP_BUTTON :> "W") @@ (DOWN_BUTTON :> "S") @@ (LEFT_BUTTON :> "A") @@
    (RIGHT_BUTTON :> "D") @@ (B_BUTTON :> "J") @@ (A_BUTTON :> "K") @@
    (SELECT_BUTTON :> "U") @@ (START_BUTTON :> "I")

\* the keys of the two arms of the match in Joypad::handle_button
DpadKeys == {"A", "W", "D", "S"}
ButtonKeys == {"J", "K", "U", "I"}

\* a loop that lets the held buttons of both groups clear their bit
RECURSIVE held_mask_low(_, _, _)
held_mask_low(j, flag, buttons) ==
    IF buttons = <<>> THEN flag
    ELSE held_mask_low(j,
                       IF code_keys[Head(buttons)] \in j.last_keys
                       THEN BitAnd(flag, BitOr(Head(buttons), 240)) ELSE flag,
                       Tail(buttons))

held_mask_any_row(j, flag, buttons) ==
    held_mask_low(j, flag, <<UP_BUTTON, DOWN_BUTTON, LEFT_BUTTON, RIGHT_BUTTON,
                             A_BUTTON, B_BUTTON, SELECT_BUTTON, START_BUTTON>>)

\* Joypad::update: the loop `flag &= button` over the held buttons of a group
RECURSIVE held_mask(_, _, _)
held_mask(j, flag, buttons) ==
    IF buttons = <<>> THEN flag
    ELSE held_mask(j,
                   IF code_keys[Head(buttons)] \in j.last_keys
                   THEN BitAnd(flag, Head(buttons)) ELSE flag,
                   Tail(buttons))

\* Joypad::update
update(gb) ==
    IF ~Ok(gb) THEN gb
    ELSE
    LET joypad_flags == load(gb, JOYPAD_REGISTER_ADDRESS)
        new_flags ==
            IF ~get_flag(joypad_flags, DPAD_FLAG)
            THEN held_mask(gb.joypad, BitOr(joypad_flags, 15),
                           <<UP_BUTTON, DOWN_BUTTON, LEFT_BUTTON, RIGHT_BUTTON>>)
            ELSE IF ~get_flag(joypad_flags, BUTTONS_FLAG)
            THEN held_mask(gb.joypad, BitOr(joypad_flags, 15),
                           <<A_BUTTON, B_BUTTON, SELECT_BUTTON, START_BUTTON>>)
            ELSE BitOr(joypad_flags, 15)
    IN  store(gb, JOYPAD_REGISTER_ADDRESS, new_flags)

\* Joypad::handle_button: self.last_keys.insert / remove
insert_key(gb, keycode) == [gb EXCEPT !.joypad.last_keys = @ \cup {keycode}]
remove_key(gb, keycode) == [gb EXCEPT !.joypad.last_keys = @ \ {keycode}]

\* Joypad::handle_button: one arm of the match, flag being the select flag
\* the arm tests in joypad_flags
handle_group(gb, keycode, down, flag) ==
    IF down
    THEN insert_key(IF /\ keycode \notin gb.joypad.last_keys
                       /\ get_flag(load(gb, JOYPAD_REGISTER_ADDRESS), flag)
                    THEN raise_interrupt(gb, JOYPAD_FLAG)
                    ELSE gb,
                    keycode)
    ELSE remove_key(gb, keycode)

\* Joypad::handle_button
handle_button(gb, keycode, down) ==
    IF ~Ok(gb) THEN gb
    ELSE CASE keycode \in DpadKeys -> handle_group(gb, keycode, down, DPAD_FLAG)
           [] keycode \in ButtonKeys -> handle_group(gb, keycode, down, BUTTONS_FLAG)
           [] OTHER -> gb

(***************************************************************************)
(* graphics.rs: the PPU mode machine of Graphics::render.  A PPUMode is    *)
(* [mode, line].                                                           *)
(***************************************************************************)
LY_ADDRESS == 65348
LYC_ADDRESS == 65349
LCD_STATUS_ADDRESS == 65345
LCY_INT_FLAG == 64
MODE2_INT_FLAG == 32
MODE1_INT_FLAG == 16
MODE0_INT_FLAG == 8
LYC_EQ_LY_FLAG == 4
SCANLINE_CYCLES == 114

\* PPUMode::Mode0 { line } .. PPUMode::Mode3 { line }
PPUMode(mode, line) == [mode |-> mode, line |-> line]

\* PPUMode::get_num
get_num(ppu_mode) == ppu_mode.mode

\* Graphics::get_mode: assert!(clock_diff <= SCANLINE_CYCLES)
get_mode_panics(clock_diff) == clock_diff > SCANLINE_CYCLES

\* Graphics::get_mode
get_mode(g, clock_diff) ==
    IF g.line_y >= 144 THEN PPUMode(1, g.line_y)
    ELSE IF clock_diff <= 20 THEN PPUMode(2, g.line_y)
    ELSE IF clock_diff < 77 THEN PPUMode(3, g.line_y)
    ELSE PPUMode(0, g.line_y)

\* Graphics::set_lyc: the LCD interrupt of LYC == LY, stat_flag being STAT as read
lyc_interrupt(gb, stat_flag) ==
    IF get_flag(stat_flag, LCY_INT_FLAG) THEN raise_interrupt(gb, LCD_FLAG) ELSE gb

\* Graphics::set_lyc: the comparison of LYC with line_y
lyc_compare(gb) ==
    IF Ok(gb) /\ load(gb, LYC_ADDRESS) = gb.graphics[1].line_y
    THEN lyc_interrupt(store(gb, LCD_STATUS_ADDRESS,
                             set_flag(load(gb, LCD_STATUS_ADDRESS), LYC_EQ_LY_FLAG)),
                       load(gb, LCD_STATUS_ADDRESS))
    ELSE gb

\* Graphics::set_lyc
set_lyc(gb) ==
    IF ~Ok(gb) THEN gb
    ELSE lyc_compare(store(gb, LY_ADDRESS, gb.graphics[1].line_y % 256))

\* Graphics::set_vblank_int (and the count of its calls)
set_vblank_int(gb) ==
    IF ~Ok(gb) THEN gb
    ELSE [raise_interrupt(gb, VBLANK_FLAG) EXCEPT !.vblanks = @ + 1]

\* Graphics::set_ppu: the match on ppu_mode, with the arm of Mode0 alone
mode_interrupt_hblank_only(ppu_mode, stat_flag) ==
    ppu_mode.mode = 0 /\ get_flag(stat_flag, MODE0_INT_FLAG)

\* Graphics::set_ppu: the match on ppu_mode that raises the LCD interrupt
mode_interrupt(ppu_mode, stat_flag) ==
    \/ ppu_mode.mode = 0 /\ get_flag(stat_flag, MODE0_INT_FLAG)
    \/ ppu_mode.mode = 1 /\ get_flag(stat_flag, MODE1_INT_FLAG)
    \/ ppu_mode.mode = 2 /\ get_flag(stat_flag, MODE2_INT_FLAG)

\* Graphics::set_ppu, stat_flag being STAT & !0b11
set_ppu_stat(gb, ppu_mode, stat_flag) ==
    store(store(gb, INTERRUPT_FLAG_ADDRESS,
                IF mode_interrupt(ppu_mode, stat_flag)
                THEN set_flag(load(gb, INTERRUPT_FLAG_ADDRESS), LCD_FLAG)
                ELSE load(gb, INTERRUPT_FLAG_ADDRESS)),
          LCD_STATUS_ADDRESS, BitOr(stat_flag, get_num(ppu_mode)))

\* Graphics::set_ppu
set_ppu(gb, ppu_mode) ==
    IF ~Ok(gb) THEN gb
    ELSE set_ppu_stat(gb, ppu_mode, BitAnd(load(gb, LCD_STATUS_ADDRESS), 252))

(***************************************************************************)
(* graphics.rs: the pixel pipeline.  A Pixel is [color_ref, pixel_source];  *)
(* a Tile is its 8 rows of 8 colour references with the source its pixels   *)
(* share; the screen buffer is kept by line, a line being its 160 colours   *)
(* <<r, g, b>>, and a line that is all black is not stored (Graphics::new   *)
(* fills the buffer with 0).                                                *)
(***************************************************************************)
SCREEN_WIDTH == 160
SCREEN_HEIGHT == 144
BYTES_PER_TILE == 16
SCY_ADDRESS == 65346
SCX_ADDRESS == 65347
WY_ADDRESS == 65354
WX_ADDRESS == 65355
LCDC_ADDRESS == 65344
LCDC_ENABLE_FLAG == 128
WINDOW_TILE_MAP_FLAG == 64
WINDOW_ENABLE_FLAG == 32
BGW_TILES_DATA_FLAG == 16
BG_TILE_MAP_FLAG == 8
OBJ_SIZE_FLAG == 4
OBJ_ENABLE_FLAG == 2
BGW_ENABLE_FLAG == 1
BG_PALETTE_ADDRESS == 65351
OBP0_ADDRESS == 65352
OBP1_ADDRESS == 65353
OBJ_TILE_ADDRESS == 32768
OBJ_COUNT == 40
OBJ_PRIORITY_FLAG == 128
OBJ_YFLIP_FLAG == 64
OBJ_XFLIP_FLAG == 32
OBJ_PALETTE_FLAG == 16
BLACK == <<0, 0, 0>>
DARK_GREY == <<48, 48, 48>>
LIGHT_GREY == <<139, 139, 139>>
WHITE == <<255, 255, 255>>

\* PixelSource::Background { enabled }, PixelSource::Object { number }
BackgroundSource(enabled) == [background |-> TRUE, enabled |-> enabled, number |-> 0]
ObjectSource(number) == [background |-> FALSE, enabled |-> FALSE, number |-> number]

\* Pixel::new
Pixel(color_ref, pixel_source) == [color_ref |-> color_ref, pixel_source |-> pixel_source]

\* Tile::fetch_tile: the colour references of the row with bytes lsb and msb
tile_row(lsb, msb) ==
    [y \in 1..8 |-> ((msb \div 2 ^ (8 - y)) % 2) * 2 + ((lsb \div 2 ^ (8 - y)) % 2)]

\* Tile::fetch_tile
fetch_tile(m, pixel_source, address) ==
    [tile |-> [x \in 1..8 |-> tile_row(read_byte(m, address + 2 * (x - 1)),
                                       read_byte(m, address + 2 * (x - 1) + 1))],
     pixel_source |-> pixel_source]

\* Tile::get_range(from..8, y)
get_range(tile, from, y) ==
    [d \in 1..(8 - from) |-> Pixel(tile.tile[y + 1][from + d], tile.pixel_source)]

\* Tile::flip_x, Tile::flip_y
flip_x(tile) == [tile EXCEPT !.tile = [x \in 1..8 |-> [y \in 1..8 |-> tile.tile[x][9 - y]]]]
flip_y(tile) == [tile EXCEPT !.tile = [x \in 1..8 |-> tile.tile[9 - x]]]

\* PixelPos::to_tile, a TilePos being <<i, j>>
to_tile(p) == <<p.x \div 8, p.y \div 8>>

\* BgFIFO::new
NewBgFIFO ==
    [fifo |-> <<>>, initialized |-> FALSE, lcdc |-> 0,
     screen_pos |-> [x |-> 0, y |-> 0], in_window |-> FALSE, tile_cache |-> EmptyArray]

\* BgFIFO::get_scroll: <<scx, scy>>; BgFIFO::get_viewport: <<wx, wy>>
get_scroll(m) == <<read_byte(m, SCX_ADDRESS), read_byte(m, SCY_ADDRESS)>>
get_viewport(m) == <<read_byte(m, WX_ADDRESS), read_byte(m, WY_ADDRESS)>>

\* Graphics::get_lcdc
get_lcdc(m) == read_byte(m, LCDC_ADDRESS)

\* BgFIFO::in_window
in_window(p, m) ==
    /\ get_flag(get_lcdc(m), WINDOW_ENABLE_FLAG)
    /\ p.x + 7 >= get_viewport(m)[1]
    /\ p.y >= get_viewport(m)[2]

\* BgFIFO::fetch: (fx, fy, map_address)
fetch_position(bg, m, lcdc) ==
    IF ~bg.in_window
    THEN [x |-> (bg.screen_pos.x + Len(bg.fifo) + get_scroll(m)[1]) % 255,
          y |-> (bg.screen_pos.y + get_scroll(m)[2]) % 255,
          map_address |-> IF get_flag(lcdc, BG_TILE_MAP_FLAG) THEN 39936 ELSE 38912]
    ELSE [x |-> (bg.screen_pos.x + Len(bg.fifo) + 7 - get_viewport(m)[1]) % 255,
          y |-> (bg.screen_pos.y - get_viewport(m)[2]) % 255,
          map_address |-> IF get_flag(lcdc, WINDOW_TILE_MAP_FLAG) THEN 39936 ELSE 38912]

\* BgFIFO::fetch: tile_start_address, tile_num being an i8 in the 0x9000 mode
tile_start_address(lcdc, tile_num) ==
    IF get_flag(lcdc, BGW_TILES_DATA_FLAG)
    THEN 32768 + BYTES_PER_TILE * tile_num
    ELSE 36864 + BYTES_PER_TILE * (IF tile_num >= 128 THEN tile_num - 256 ELSE tile_num)

\* BgFIFO::fetch: the tile of the cache, or the tile fetched for a vacant entry
cached_tile(bg, m, lcdc, fp) ==
    IF to_tile(fp) \in DOMAIN bg.tile_cache
    THEN bg.tile_cache[to_tile(fp)]
    ELSE fetch_tile(m, BackgroundSource(get_flag(lcdc, BGW_ENABLE_FLAG)),
                    tile_start_address(lcdc,
                        read_byte(m, fp.map_address + to_tile(fp)[1] + to_tile(fp)[2] * 32)))

\* BgFIFO::fetch: the fifo extended with the rest of the tile line, the tile
\* kept in the cache unless this was its last line
extend_fifo(bg, fp, tile) ==
    [bg EXCEPT !.fifo = @ \o get_range(tile, fp.x % 8, fp.y % 8),
               !.tile_cache =
                   IF fp.y % 8 = 7
                   THEN [p \in DOMAIN bg.tile_cache \ {to_tile(fp)} |-> bg.tile_cache[p]]
                   ELSE (to_tile(fp) :> tile) @@ bg.tile_cache]

fetch_at(bg, m, lcdc, fp) == extend_fifo(bg, fp, cached_tile(bg, m, lcdc, fp))

\* BgFIFO::fetch, one turn of the loop
fetch_once(bg, m) == fetch_at(bg, m, get_lcdc(m), fetch_position(bg, m, get_lcdc(m)))

\* BgFIFO::fetch
RECURSIVE fetch(_, _)
fetch(bg, m) == IF Len(bg.fifo) >= 8 THEN bg ELSE fetch(fetch_once(bg, m), m)

\* BgFIFO::next_line: the position of the new line (PixelPos::next_line)
bg_start_line(bg) ==
    [bg EXCEPT !.screen_pos = IF bg.initialized THEN [x |-> 0, y |-> @.y + 1] ELSE @,
               !.initialized = TRUE]

\* BgFIFO::next_line, from `self.in_window = ..`
bg_restart(bg, m) ==
    fetch([bg EXCEPT !.in_window = in_window(bg.screen_pos, m),
                     !.fifo = <<>>,
                     !.lcdc = get_lcdc(m)], m)

\* BgFIFO::next_line
bg_next_line(bg, m) == bg_restart(bg_start_line(bg), m)

\* BgFIFO::pop: the switch to the window
bg_enter_window(bg, m) ==
    IF ~bg.in_window /\ in_window(bg.screen_pos, m)
    THEN fetch([bg EXCEPT !.in_window = TRUE, !.fifo = <<>>], m)
    ELSE bg

\* BgFIFO::pop, after the pixel at the head was taken
bg_advance(bg, m) ==
    fetch([bg EXCEPT !.fifo = Tail(@), !.screen_pos.x = @ + 1], m)

\* ObjFIFO::new
NewObjFIFO ==
    [fifo |-> <<>>, lcdc |-> 0, initialized |-> FALSE, screen_y |-> 0,
     obj_attr |-> EmptyArray]

\* Object::new
NewObject(index, x_pos, y_pos, tile_num, flag) ==
    [index |-> index, x_pos |-> x_pos, y_pos |-> y_pos, tile_num |-> tile_num,
     flag |-> flag]

\* ObjFIFO::merge
merge(p1, p2) == IF p1.color_ref = 0 THEN p2 ELSE p1

\* ObjFIFO::get_obj_attr
get_obj_attr(obj, obj_index) == obj.obj_attr[obj_index]

\* ObjFIFO::next_line: the object of OAM entry obj_idx
oam_object(m, obj_idx) ==
    NewObject(obj_idx,
              read_byte(m, OAM_ADDRESS + 4 * obj_idx + 1),
              read_byte(m, OAM_ADDRESS + 4 * obj_idx),
              read_byte(m, OAM_ADDRESS + 4 * obj_idx + 2),
              read_byte(m, OAM_ADDRESS + 4 * obj_idx + 3))

\* ObjFIFO::next_line: the object intersects the line
intersects(o, screen_y) ==
    /\ o.y_pos <= screen_y + 16
    /\ screen_y + 8 < o.y_pos
    /\ ~(o.x_pos = 0 \/ o.x_pos >= 168)

\* ObjFIFO::next_line: the tile of the object, flipped as its flag says
flip_tile_y(tile, flag) == IF get_flag(flag, OBJ_YFLIP_FLAG) THEN flip_y(tile) ELSE tile
flip_tile_x(tile, flag) == IF get_flag(flag, OBJ_XFLIP_FLAG) THEN flip_x(tile) ELSE tile
object_tile(m, o) ==
    flip_tile_y(flip_tile_x(fetch_tile(m, ObjectSource(o.index),
                                       OBJ_TILE_ADDRESS + BYTES_PER_TILE * o.tile_num),
                            o.flag),
                o.flag)

\* ObjFIFO::next_line: xrange
xrange(x_pos) ==
    IF x_pos < 8 THEN (8 - x_pos)..7
    ELSE IF x_pos > SCREEN_WIDTH THEN 0..((8 + SCREEN_WIDTH) - x_pos - 1)
    ELSE 0..7

\* ObjFIFO::next_line: the tile line merged into line_pixels
merge_line(line_pixels, x_pos, tile_line) ==
    [i \in 1..SCREEN_WIDTH |->
        IF (i - 1) + 8 - x_pos \in xrange(x_pos)
        THEN merge(line_pixels[i], tile_line[(i - 1) + 8 - x_pos + 1])
        ELSE line_pixels[i]]

\* ObjFIFO::next_line: the body of `if y_pos <= ..`, s being
\* [line_pixels, obj_attr]
take_object(s, m, o, screen_y) ==
    [line_pixels |-> merge_line(s.line_pixels, o.x_pos,
                                get_range(object_tile(m, o), 0, screen_y + 16 - o.y_pos)),
     obj_attr |-> (o.index :> o) @@ s.obj_attr]

\* ObjFIFO::next_line: the loop body up to the test of the length
visit_object(s, m, o, screen_y) ==
    IF intersects(o, screen_y) THEN take_object(s, m, o, screen_y) ELSE s

\* ObjFIFO::next_line: the loop over the OAM entries, left at 10 objects
RECURSIVE scan_objects(_, _, _, _)
scan_next_no_limit(s, m, screen_y, obj_idx) ==
    scan_objects(s, m, screen_y, obj_idx + 1)

scan_next(s, m, screen_y, obj_idx) ==
    IF Cardinality(DOMAIN s.obj_attr) >= 10 THEN s
    ELSE scan_objects(s, m, screen_y, obj_idx + 1)

scan_objects(s, m, screen_y, obj_idx) ==
    IF obj_idx >= OBJ_COUNT THEN s
    ELSE scan_next(visit_object(s, m, oam_object(m, obj_idx), screen_y),
                   m, screen_y, obj_idx)

\* ObjFIFO::next_line: line_pixels and obj_attr before the loop
empty_line ==
    [line_pixels |-> [i \in 1..SCREEN_WIDTH |-> Pixel(0, ObjectSource(0))],
     obj_attr |-> EmptyArray]

\* ObjFIFO::next_line, from `self.lcdc = ..`, s being the outcome of the loop
obj_fill(obj, lcdc, s) ==
    [obj EXCEPT !.lcdc = lcdc, !.fifo = s.line_pixels, !.obj_attr = s.obj_attr]

\* ObjFIFO::next_line: screen_y of the new line
obj_start_line(obj) ==
    [obj EXCEPT !.screen_y = IF obj.initialized THEN @ + 1 ELSE @,
                !.initialized = TRUE]

obj_restart(obj, m) ==
    obj_fill(obj, get_lcdc(m),
             IF get_flag(get_lcdc(m), OBJ_ENABLE_FLAG)
             THEN scan_objects(empty_line, m, obj.screen_y, 0)
             ELSE empty_line)

\* ObjFIFO::next_line
obj_next_line(obj, m) == obj_restart(obj_start_line(obj), m)

\* Graphics::mix (bgp is a background pixel and obp an object pixel by
\* construction)
mix(obj, bgp, obp) ==
    IF obp.color_ref = 0 THEN bgp
    ELSE IF ~bgp.pixel_source.enabled THEN obp
    ELSE IF /\ get_flag(get_obj_attr(obj, obp.pixel_source.number).flag, OBJ_PRIORITY_FLAG)
            /\ bgp.color_ref >= 1
         THEN bgp
         ELSE obp

\* Graphics::pixel_to_color: the palette of the pixel
pixel_palette(obj, pixel, m) ==
    IF pixel.pixel_source.background
    THEN IF pixel.pixel_source.enabled THEN read_byte(m, BG_PALETTE_ADDRESS) ELSE 255
    ELSE BitOr(IF get_flag(get_obj_attr(obj, pixel.pixel_source.number).flag, OBJ_PALETTE_FLAG)
               THEN read_byte(m, OBP1_ADDRESS)
               ELSE read_byte(m, OBP0_ADDRESS),
               3)

\* Graphics::pixel_to_color: the colour of a colour index
index_color(color_idx) ==
    CASE color_idx = 0 -> WHITE
      [] color_idx = 1 -> LIGHT_GREY
      [] color_idx = 2 -> DARK_GREY
      [] color_idx = 3 -> BLACK

\* Graphics::pixel_to_color, palette being the palette of the pixel
palette_color(palette, color_ref) == index_color((palette \div 4 ^ color_ref) % 4)

\* Graphics::pixel_to_color
pixel_to_color(obj, pixel, m) ==
    palette_color(pixel_palette(obj, pixel, m), pixel.color_ref)

\* Graphics::draw_scanline: a colour shown whatever LCDC says
lcd_color_always(m, color) == color

\* Graphics::draw_scanline: `if get_flag(lcdc, LCDC_ENABLE_FLAG)`
lcd_color(m, color) == IF get_flag(get_lcdc(m), LCDC_ENABLE_FLAG) THEN color ELSE BLACK

\* Graphics::new: the pixel pipeline; strip (the pixels popped and mixed for
\* the line drawn last), draws (the calls of draw_scanline), presented (the
\* buffer as last handed to the texture) and frames (the frames presented)
\* record what the code does not keep
NewPixels ==
    [screen_buffer |-> EmptyArray, bg_fifo |-> NewBgFIFO, obj_fifo |-> NewObjFIFO,
     row |-> <<>>, strip |-> <<>>, draws |-> 0, presented |-> EmptyArray, frames |-> 0]

\* the 160 colours of a line of a buffer
BlackRow == [x \in 1..SCREEN_WIDTH |-> BLACK]
Row(buffer, line) == IF line \in DOMAIN buffer THEN buffer[line] ELSE BlackRow

\* Graphics::draw_scanline: the loop body after the two pops and the mix
emit(px, m, bgp, obp, pixel) ==
    [px EXCEPT !.row = Append(@, lcd_color(m, pixel_to_color(px.obj_fifo, pixel, m))),
               !.strip = Append(@, [bgp |-> bgp, obp |-> obp, pixel |-> pixel]),
               !.bg_fifo = bg_advance(@, m),
               !.obj_fifo.fifo = Tail(@)]

\* Graphics::draw_scanline: the loop body, the background fifo being in the
\* window if it has to
draw_pixel(px, m) ==
    emit(px, m, Head(px.bg_fifo.fifo), Head(px.obj_fifo.fifo),
         mix(px.obj_fifo, Head(px.bg_fifo.fifo), Head(px.obj_fifo.fifo)))

enter_window(px, m) == [px EXCEPT !.bg_fifo = bg_enter_window(@, m)]

\* Graphics::draw_scanline: the loop body for n successive x, the first half
\* of them first
RECURSIVE draw_pixels(_, _, _)
draw_pixels(px, m, n) ==
    IF n = 0 THEN px
    ELSE IF n = 1 THEN draw_pixel(enter_window(px, m), m)
    ELSE Apply(draw_pixels(px, m, n \div 2),
               LAMBDA half : draw_pixels(half, m, n - (n \div 2)))

\* Graphics::draw_scanline: the two next_line calls
start_scanline(px, m) ==
    [px EXCEPT !.bg_fifo = bg_next_line(@, m),
               !.obj_fifo = obj_next_line(@, m),
               !.row = <<>>, !.strip = <<>>, !.draws = @ + 1]

\* Graphics::draw_scanline: the colours of the line in the screen buffer
store_row(px, line_y) ==
    [px EXCEPT !.screen_buffer =
        IF px.row = BlackRow
        THEN [l \in DOMAIN @ \ {line_y} |-> @[l]]
        ELSE (line_y :> px.row) @@ @]

\* Graphics::draw_scanline on the pixel pipeline
draw_line(px, m, line_y) ==
    store_row(draw_pixels(start_scanline(px, m), m, SCREEN_WIDTH), line_y)

\* Graphics::draw_scanline; the pixel pipeline is None where it is left out of
\* the machine
draw_scanline(gb) ==
    IF ~Ok(gb) \/ gb.graphics[1].pixels = None THEN gb
    ELSE [gb EXCEPT !.graphics[1].pixels[1] = draw_line(@, gb.memory, gb.graphics[1].line_y)]

\* Graphics::render: texture.update(None, &self.screen_buffer, ..) and
\* canvas.present()
present(gb) ==
    IF ~Ok(gb) \/ gb.graphics[1].pixels = None THEN gb
    ELSE [gb EXCEPT !.graphics[1].pixels[1].presented = gb.graphics[1].pixels[1].screen_buffer,
                    !.graphics[1].pixels[1].frames = @ + 1]

\* Graphics::render: self.bg_fifo = BgFIFO::new(); self.obj_fifo = ObjFIFO::new()
new_fifos(pixels) ==
    IF pixels = None THEN None
    ELSE Some([pixels[1] EXCEPT !.bg_fifo = NewBgFIFO, !.obj_fifo = NewObjFIFO])

\* Graphics::new
NewGraphics ==
    [line_y |-> 0, last_timestamp |-> 0, last_ppu_mode |-> PPUMode(1, 153),
     pixels |-> Some(NewPixels)]

\* a Graphics whose pixel pipeline is left out of the machine
without_pixels(g) == [g EXCEPT !.pixels = None]

\* Graphics::render, the match on the transition, raising VBLANK at a new frame too
transition_vblank_each_frame(gb, last, current) ==
    CASE last.mode = 1 /\ current.mode = 2 /\ last.line = 153 /\ current.line = 0 ->
            set_vblank_int(set_lyc(gb))
      [] last.mode = 2 /\ current.mode = 3 /\ last.line = current.line ->
            draw_scanline(gb)
      [] last.mode = 3 /\ current.mode = 0 /\ last.line = current.line ->
            gb
      [] last.mode = 0 /\ current.mode = 2 /\ last.line + 1 = current.line ->
            set_lyc(gb)
      [] last.mode = 0 /\ current.mode = 1 /\ last.line + 1 = current.line ->
            present(set_vblank_int(set_lyc(gb)))
      [] last.mode = 1 /\ current.mode = 1 /\ last.line + 1 = current.line ->
            set_lyc(gb)
      [] OTHER -> [gb EXCEPT !.fault = "PPU Transition Error"]

\* Graphics::render, the match on the transition (the texture is presented at
\* the VBLANK arm)
transition(gb, last, current) ==
    CASE last.mode = 1 /\ current.mode = 2 /\ last.line = 153 /\ current.line = 0 ->
            set_lyc(gb)
      [] last.mode = 2 /\ current.mode = 3 /\ last.line = current.line ->
            draw_scanline(gb)
      [] last.mode = 3 /\ current.mode = 0 /\ last.line = current.line ->
            gb
      [] last.mode = 0 /\ current.mode = 2 /\ last.line + 1 = current.line ->
            set_lyc(gb)
      [] last.mode = 0 /\ current.mode = 1 /\ last.line + 1 = current.line ->
            present(set_vblank_int(set_lyc(gb)))
      [] last.mode = 1 /\ current.mode = 1 /\ last.line + 1 = current.line ->
            set_lyc(gb)
      [] OTHER -> [gb EXCEPT !.fault = "PPU Transition Error"]

\* self.last_ppu_mode = current_ppu_mode
set_last_ppu_mode(gb, current) ==
    IF Ok(gb) THEN [gb EXCEPT !.graphics[1].last_ppu_mode = current] ELSE gb

\* Graphics::render, from `if self.last_ppu_mode != current_ppu_mode`
change_mode(gb, current) ==
    IF gb.graphics[1].last_ppu_mode # current
    THEN set_ppu(set_last_ppu_mode(
                     transition(gb, gb.graphics[1].last_ppu_mode, current), current),
                 current)
    ELSE gb

\* Graphics::render, the second clock_diff and get_mode
render_mode(gb, clock_diff) ==
    IF get_mode_panics(clock_diff) THEN [gb EXCEPT !.fault = "get_mode"]
    ELSE change_mode(gb, get_mode(gb.graphics[1], clock_diff))

\* Graphics::render, `if self.line_y > 153`, the FIFOs being kept
wrap_frame_keep_fifos(gb) ==
    IF gb.graphics[1].line_y > 153 THEN [gb EXCEPT !.graphics[1].line_y = 0] ELSE gb

\* Graphics::render, `if self.line_y > 153`
wrap_frame(gb) ==
    IF gb.graphics[1].line_y > 153
    THEN [gb EXCEPT !.graphics[1].line_y = 0, !.graphics[1].pixels = new_fifos(@)]
    ELSE gb

\* Graphics::render, the line advance, with the line restarted at the timestamp
advance_line_resync(gb, timestamp) ==
    IF timestamp - gb.graphics[1].last_timestamp >= SCANLINE_CYCLES
    THEN [gb EXCEPT !.graphics[1].last_timestamp = timestamp,
                    !.graphics[1].line_y = @ + 1]
    ELSE gb

\* Graphics::render, `if clock_diff >= SCANLINE_CYCLES`
advance_line(gb, timestamp) ==
    IF timestamp - gb.graphics[1].last_timestamp >= SCANLINE_CYCLES
    THEN [gb EXCEPT !.graphics[1].last_timestamp = @ + SCANLINE_CYCLES,
                    !.graphics[1].line_y = @ + 1]
    ELSE gb

\* Graphics::render, after the line advance
render_line(gb, timestamp) ==
    render_mode(gb, timestamp - gb.graphics[1].last_timestamp)

\* Graphics::render; None when graphics are disabled
render(gb, timestamp) ==
    IF ~Ok(gb) \/ gb.graphics = None THEN gb
    ELSE render_line(wrap_frame(advance_line(gb, timestamp)), timestamp)

\* GameBoy::run: graphics.render(&mut self.memory, self.clock.get_timestamp())
render_graphics(gb) == render(gb, gb.clock.timestamp)

(***************************************************************************)
(* gb.rs: the parts of the body of the main loop                           *)
(***************************************************************************)
\* GameBoy::run: the serial output
serial_output(gb) ==
    IF Ok(gb) /\ load(gb, 65282) # 0 THEN store(gb, 65282, 0) ELSE gb

\* GameBoy::run: self.cpu.ime_step()
retire(gb) == IF Ok(gb) THEN [gb EXCEPT !.cpu = ime_step(@)] ELSE gb

\* a pass that executes whether the CPU is halted or not
execute_always(gb) == IF ~Ok(gb) THEN gb ELSE execute(gb)

\* GameBoy::run: a halted CPU idles for one cycle, a running one executes
execute_or_idle(gb) ==
    IF ~Ok(gb) THEN gb
    ELSE IF gb.cpu.halt THEN tick(gb, 1) ELSE execute(gb)

(***************************************************************************)
(* SpecTimer: Clock::tick applied to a memory whose timer registers were   *)
(* written beforehand (Memory::new, then write_byte of TAC, TMA and TIMA). *)
(***************************************************************************)
TimerTacs == {1, 4, 5, 6, 7}
TimerTmas == {0, 171}
TimerTimas == {254, 255}
TickCycles == (1..6) \cup {70}

InitTimer ==
    /\ cpu = NewCPU
    /\ \E tac \in TimerTacs, tma \in TimerTmas, tima \in TimerTimas :
          /\ memory = write_byte(write_byte(write_byte(NewMemory,
                          TAC_ADDRESS, tac), TMA_ADDRESS, tma), TIMA_ADDRESS, tima)
          /\ hist = [tima0 |-> tima, last |-> 0]
    /\ clock = NewClock
    /\ graphics = None
    /\ joypad = NewJoypad
    /\ fault = "none"
    /\ overflow_checks = FALSE
    /\ incs = 0
    /\ vblanks = 0
    /\ wr = None
    /\ frame = None

\* clock.tick(mcycles, memory)
Tick(mcycles) ==
    /\ fault = "none"
    /\ clock.timestamp + mcycles <= MaxTimerCycles
    /\ LET gb == tick(Machine, mcycles)
       IN  /\ memory' = gb.memory
           /\ clock' = gb.clock
           /\ fault' = gb.fault
           /\ incs' = gb.incs
           /\ hist' = [hist EXCEPT !.last = gb.incs - incs]
    /\ UNCHANGED <<cpu, graphics, joypad, overflow_checks, wr, frame, vblanks>>

NextTimer == \E mcycles \in TickCycles : Tick(mcycles)

SpecTimer == InitTimer /\ [][NextTimer]_vars

(***************************************************************************)
(* SpecMem: the Memory interface: load_boot, load_cartidge, write_byte.    *)
(***************************************************************************)
\* a 256-byte boot ROM
BootImage == [len |-> 256, data |-> (0 :> 49 @@ 1 :> 254 @@ 255 :> 80)]

\* a 32 KiB ROM-only image and a 64 KiB MBC1 image
RomOnlyImage ==
    [len |-> 32768,
     data |-> (0 :> 195 @@ 1 :> 80 @@ 255 :> 17 @@ 256 :> 118 @@ 16384 :> 34 @@ 32767 :> 51)]
Mbc1Image ==
    [len |-> 65536,
     data |-> (0 :> 195 @@ 327 :> 1 @@ 328 :> 1 @@ 16384 :> 34 @@ 32768 :> 68)]
RomImages == {RomOnlyImage, Mbc1Image}

WriteAddresses == {0, 564, 8192, 32767, 32768, 49152, 65024, 65183, 65184, 65279,
                   65280, 65284, 65295, 65350, 65360, 65535}
WriteBytes == {0, 1, 252, 254, 255}

InitMem ==
    /\ cpu = NewCPU
    /\ memory = NewMemory
    /\ clock = NewClock
    /\ graphics = None
    /\ joypad = NewJoypad
    /\ fault = "none"
    /\ overflow_checks = FALSE
    /\ incs = 0
    /\ vblanks = 0
    /\ hist = None
    /\ wr = [n |-> 0, address |-> 0, byte |-> 0, boot |-> FALSE,
             early |-> FALSE, unmapped |-> FALSE]
    /\ frame = None

\* GameBoy::load_boot
LoadBoot ==
    /\ fault = "none"
    /\ ~wr.boot
    /\ IF load_boot_panics(BootImage)
       THEN fault' = "load_boot" /\ UNCHANGED memory
       ELSE memory' = load_boot(memory, BootImage) /\ UNCHANGED fault
    /\ wr' = [wr EXCEPT !.boot = TRUE]
    /\ UNCHANGED <<cpu, clock, graphics, joypad, overflow_checks, incs, hist, frame, vblanks>>

\* GameBoy::load_rom
LoadRom(rom_data) ==
    /\ fault = "none"
    /\ memory.cartridge = "None"
    /\ IF load_cartidge_panics(rom_data)
       THEN fault' = "load_cartidge" /\ UNCHANGED memory
       ELSE memory' = load_cartidge(memory, rom_data) /\ UNCHANGED fault
    /\ UNCHANGED <<cpu, clock, graphics, joypad, overflow_checks, incs, hist, wr, frame, vblanks>>

\* both images are loaded (main.rs loads them before GameBoy::run)
Loaded == wr.boot /\ memory.cartridge # "None"

\* memory.write_byte(address, byte); wr records the call: early when it came
\* before the images were loaded, unmapped once a write of 0xFF50 returned
WriteByte(address, byte) ==
    /\ fault = "none"
    /\ wr.n < MaxWrites
    /\ LET gb == store(Machine, address, byte)
       IN  memory' = gb.memory /\ fault' = gb.fault
    /\ wr' = [wr EXCEPT !.n = @ + 1, !.address = address, !.byte = byte,
                        !.early = @ \/ ~Loaded,
                        !.unmapped = @ \/ (address = UNLOAD_BOOT_ADDRESS
                                            /\ ~write_byte_panics(memory, address))]
    /\ UNCHANGED <<cpu, clock, graphics, joypad, overflow_checks, incs, hist, frame, vblanks>>

NextMem ==
    \/ LoadBoot
    \/ \E rom_data \in RomImages : LoadRom(rom_data)
    \/ \E address \in WriteAddresses, byte \in WriteBytes : WriteByte(address, byte)

SpecMem == InitMem /\ [][NextMem]_vars

(***************************************************************************)
(* SpecJoy: the Joypad as the tests of test.rs drive it: Memory::new and    *)
(* Joypad::new, then key events (handle_button), Joypad::update and the     *)
(* program's writes of the selector to 0xFF00 and of 0 to IF, in any order. *)
(***************************************************************************)
\* the keys the host reports: the eight mapped ones and one that is not
Keycodes == DpadKeys \cup ButtonKeys \cup {"Z"}

\* the bytes a program writes to 0xFF00: both rows, one row (0x10, 0x20, and
\* the !DPAD_FLAG, !BUTTONS_FLAG of the tests) or no row selected
JoySelects == {0, 16, 32, 48, 223, 239}

InitJoy ==
    /\ cpu = NewCPU
    /\ memory = NewMemory
    /\ clock = NewClock
    /\ graphics = None
    /\ joypad = NewJoypad
    /\ fault = "none"
    /\ overflow_checks = FALSE
    /\ incs = 0
    /\ vblanks = 0
    /\ hist = [op |-> "new"]
    /\ wr = None
    /\ frame = None

\* the machine after a call, hist naming the call
JoyCommit(gb, op) ==
    /\ memory' = gb.memory
    /\ joypad' = gb.joypad
    /\ fault' = gb.fault
    /\ hist' = [op |-> op]
    /\ UNCHANGED <<cpu, clock, graphics, overflow_checks, incs, vblanks, wr, frame>>

\* GameBoy::run: a KeyDown or KeyUp event
KeyEvent(keycode, down) ==
    /\ fault = "none"
    /\ JoyCommit(handle_button(Machine, keycode, down), "key")

\* GameBoy::run: self.joypad.update(&mut self.memory)
UpdateJoypad ==
    /\ fault = "none"
    /\ JoyCommit(update(Machine), "update")

\* the program writes the selector
SelectRow(byte) ==
    /\ fault = "none"
    /\ JoyCommit(store(Machine, JOYPAD_REGISTER_ADDRESS, byte), "select")

\* the program acknowledges the interrupts
Acknowledge ==
    /\ fault = "none"
    /\ load(Machine, INTERRUPT_FLAG_ADDRESS) # 0
    /\ JoyCommit(store(Machine, INTERRUPT_FLAG_ADDRESS, 0), "ack")

NextJoy ==
    \/ \E keycode \in Keycodes, down \in BOOLEAN : KeyEvent(keycode, down)
    \/ UpdateJoypad
    \/ \E byte \in JoySelects : SelectRow(byte)
    \/ Acknowledge

SpecJoy == InitJoy /\ [][NextJoy]_vars

(***************************************************************************)
(* SpecCPU: the main loop without graphics (GameBoy::new(false)), running  *)
(* a program of NOP, EI, DI, HALT and RETI from the boot area.  The        *)
(* machine is built by GameBoy::new, load_boot and load_rom; then, as a    *)
(* test harness does through the public fields, SP is set and IE, IF and   *)
(* the timer registers are written with Memory::write_byte.                *)
(***************************************************************************)
MaxProgram == 3

Opcodes == {0, 118, 217, 243, 251}

Programs == [1..MaxProgram -> Opcodes]

\* a boot image holding the program at address 0 and 0 (NOP) everywhere else
ProgramImage(program) ==
    [len |-> BOOTROM_SIZE,
     data |-> [a \in {i - 1 : i \in {j \in 1..MaxProgram : program[j] # 0}} |->
                  program[a + 1]]]

CpuEnables == {0, 31, 44, 255}
CpuFlags == {0, 5, 10, 48}
CpuTimers == {<<0, 0>>, <<5, 255>>}
CpuStacks == {65534}

\* what one pass of the main loop did
NoStep ==
    [op |-> "NONE", pc0 |-> 0, ime0 |-> <<None, FALSE>>, cpu0 |-> NewCPU, t0 |-> 0,
     cycles |-> 0,
     svc |-> [halt |-> FALSE, ime |-> FALSE, pending |-> 0, pc |-> 0, sp |-> 0,
              iflag |-> 0, cpu |-> NewCPU],
     dispatched |-> FALSE]

\* the machine as CPU::handle_interrupts finds it
ServicePoint(gb) ==
    [halt |-> gb.cpu.halt,
     ime |-> get_ime(gb.cpu),
     pending |-> pending(gb),
     pc |-> gb.cpu.pc,
     sp |-> gb.cpu.sp,
     iflag |-> load(gb, INTERRUPT_FLAG_ADDRESS),
     cpu |-> gb.cpu]

InitCPU ==
    /\ \E program \in Programs, ie \in CpuEnables, iflag \in CpuFlags,
          timer \in CpuTimers, sp \in CpuStacks :
          /\ memory =
               LET m0 == load_cartidge(load_boot(NewMemory, ProgramImage(program)),
                                       RomOnlyImage)
                   m1 == write_byte(m0, INTERRUPT_ENABLE_ADDRESS, ie)
                   m2 == write_byte(m1, INTERRUPT_FLAG_ADDRESS, iflag)
                   m3 == write_byte(m2, TAC_ADDRESS, timer[1])
               IN  write_byte(m3, TIMA_ADDRESS, timer[2])
          /\ cpu = [NewCPU EXCEPT !.sp = sp]
    /\ clock = NewClock
    /\ graphics = None
    /\ joypad = NewJoypad
    /\ fault = "none"
    /\ overflow_checks \in BOOLEAN
    /\ incs = 0
    /\ vblanks = 0
    /\ hist = [cur |-> NoStep, prev |-> NoStep, n |-> 0, halt_pc |-> 0]
    /\ wr = None
    /\ frame = None

\* what a pass did, g1 being the machine at its interrupt-service point
StepRecord(g1) ==
    [op |-> IF cpu.halt THEN "IDLE" ELSE decode(memory, cpu.pc)[1].instruction,
     pc0 |-> cpu.pc,
     ime0 |-> cpu.ime,
     cpu0 |-> cpu,
     t0 |-> clock.timestamp,
     cycles |-> g1.clock.timestamp - clock.timestamp,
     svc |-> ServicePoint(g1),
     dispatched |-> get_ime(g1.cpu) /\ pending(g1) # 0]

\* the pass ends in the machine gb, or in the panic gb.fault
Commit(gb, rec) ==
    IF Ok(gb)
    THEN /\ cpu' = gb.cpu
         /\ memory' = gb.memory
         /\ clock' = gb.clock
         /\ incs' = gb.incs
         /\ hist' = [cur |-> rec, prev |-> hist.cur, n |-> hist.n + 1,
                     halt_pc |-> IF rec.op = "HALT" THEN rec.pc0 ELSE hist.halt_pc]
         /\ UNCHANGED fault
    ELSE /\ fault' = gb.fault
         /\ UNCHANGED <<cpu, memory, clock, incs, hist>>

\* GameBoy::run, from handle_interrupts to the serial output
AfterExecute(g1) ==
    Commit(serial_output(retire(handle_interrupts(g1))), StepRecord(g1))

\* one pass of the loop of GameBoy::run, graphics disabled
RunStep ==
    /\ fault = "none"
    /\ graphics = None
    /\ clock.timestamp < MaxCpuCycles
    /\ AfterExecute(execute_or_idle(update(Machine)))
    /\ UNCHANGED <<graphics, joypad, overflow_checks, vblanks, wr, frame>>

NextCPU == RunStep

SpecCPU == InitCPU /\ [][NextCPU]_vars

(***************************************************************************)
(* SpecPPU: the main loop with graphics (GameBoy::new(true)) over nearly    *)
(* two frames.  The CPU is seen from the PPU: an instruction is the        *)
(* machine cycles it ticks (1 to 6), or the store LDH (0x0F),A with A = 0  *)
(* by which a program acknowledges the interrupts; PC is not tracked, IME  *)
(* stays disabled and the program does not write the registers of the PPU  *)
(* after STAT and LYC were set up.  The pixel pipeline is left out of the   *)
(* machine here (draw_scanline writes nothing but the pipeline).            *)
(***************************************************************************)
InstructionCycles == 1..6

\* <<STAT, LYC>> as set up before the loop
PpuSetups == {<<0, 0>>, <<80, 144>>}

\* CPU::execute of an instruction that ticks mcycles
execute_cycles(gb, mcycles) == tick(gb, mcycles)

\* CPU::execute of LDH (n),A
execute_ldh(gb, n, a) == tick(store(tick(gb, 1), bytes2word(n, 255), a), 2)

InitPPU ==
    /\ cpu = NewCPU
    /\ \E setup \in PpuSetups :
          memory =
             LET m0 == load_cartidge(load_boot(NewMemory, BootImage), RomOnlyImage)
                 m1 == write_byte(m0, LCD_STATUS_ADDRESS, setup[1])
             IN  write_byte(m1, LYC_ADDRESS, setup[2])
    /\ clock = NewClock
    /\ graphics = Some(without_pixels(NewGraphics))
    /\ joypad = NewJoypad
    /\ fault = "none"
    /\ overflow_checks = FALSE
    /\ incs = 0
    /\ vblanks = 0
    /\ hist = None
    /\ wr = None
    /\ frame = [start |-> 0, vbl0 |-> 0, n |-> 0]

\* the pass ends in the machine gb, or in the panic gb.fault
CommitFrame(gb) ==
    IF Ok(gb)
    THEN /\ memory' = gb.memory
         /\ clock' = gb.clock
         /\ graphics' = gb.graphics
         /\ cpu' = gb.cpu
         /\ vblanks' = gb.vblanks
         /\ frame' = IF gb.graphics[1].line_y = 0 /\ graphics[1].line_y = 153
                     THEN [start |-> gb.graphics[1].last_timestamp,
                           vbl0 |-> gb.vblanks, n |-> frame.n + 1]
                     ELSE frame
         /\ UNCHANGED fault
    ELSE /\ fault' = gb.fault
         /\ UNCHANGED <<memory, clock, graphics, cpu, vblanks, frame>>

\* GameBoy::run, from handle_interrupts to the rendering
AfterInstruction(g1) ==
    CommitFrame(render_graphics(serial_output(retire(handle_interrupts(g1)))))

\* one pass of the loop of GameBoy::run: an instruction of mcycles cycles
CyclesStep(mcycles) ==
    /\ fault = "none"
    /\ graphics # None
    /\ clock.timestamp < MaxPpuCycles
    /\ AfterInstruction(execute_cycles(update(Machine), mcycles))
    /\ UNCHANGED <<joypad, overflow_checks, incs, hist, wr>>

\* one pass of the loop of GameBoy::run: the program clears IF
AckStep ==
    /\ fault = "none"
    /\ graphics # None
    /\ clock.timestamp < MaxPpuCycles
    /\ load(Machine, INTERRUPT_FLAG_ADDRESS) # 0
    /\ AfterInstruction(execute_ldh(update(Machine), 15, 0))
    /\ UNCHANGED <<joypad, overflow_checks, incs, hist, wr>>

NextPPU ==
    \/ \E mcycles \in InstructionCycles : CyclesStep(mcycles)
    \/ AckStep

SpecPPU == InitPPU /\ [][NextPPU]_vars

(***************************************************************************)
(* SpecPix: the main loop with graphics over the first frame, the pixel     *)
(* pipeline included.  The CPU is seen as in SpecPPU.  The program has set  *)
(* up the tiles, the tile maps, OAM, the palettes, the scroll and the       *)
(* window, and LCDC; it then writes LCDC (LDH (0x40),A) in the first pass   *)
(* of the HBLANK of the lines its script names, every other pass being an   *)
(* instruction of 6 cycles.                                                 *)
(***************************************************************************)
MaxPixCycles == 16430

\* the byte a sequence of <<address, byte>> writes last to an address
last_write(writes, address) ==
    writes[CHOOSE k \in DOMAIN writes :
              /\ writes[k][1] = address
              /\ \A later \in DOMAIN writes : writes[later][1] = address => later <= k][2]

\* the array after a sequence of stores
poke_all(arr, writes) ==
    LET written == {writes[k][1] : k \in DOMAIN writes}
        byte(a) == IF a \in written THEN last_write(writes, a) ELSE arr[a]
    IN  [a \in {x \in DOMAIN arr \cup written : byte(x) # 0} |-> byte(a)]

\* memory.write_byte over a sequence of <<address, byte>>, the addresses
\* being at 0x8000 or above and neither 0xFF46 nor 0xFF50, the cartridge
\* being ROM only: each write stores its byte and does nothing else
write_all(m, writes) == [m EXCEPT !.memory = poke_all(@, writes)]

\* the 16 bytes of a tile whose 8 rows are all (lsb, msb)
TileWrites(address, lsb, msb) ==
    [k \in 1..16 |-> <<address + k - 1, IF k % 2 = 1 THEN lsb ELSE msb>>]

\* tiles: 1 is colour 2 all over, 2 is colour 1 all over, 3 has the columns
\* 3,3,1,1,2,2,0,0 under a first row of colour 3; the tile 1 of the 0x9000
\* addressing is colour 3 all over
VideoTiles ==
    TileWrites(32784, 0, 255) \o TileWrites(32800, 255, 0) \o
    TileWrites(32816, 240, 204) \o <<<<32816, 255>>, <<32817, 255>>>> \o
    TileWrites(36880, 255, 255)

\* the background map at 0x9800 has the tiles 1, 3, 2 in the columns 1, 2, 3
\* of every row; the map at 0x9C00 has tile 2 in column 0 and tile 1 in
\* column 1
VideoMaps ==
    [k \in 1..96 |->
        <<38912 + 32 * ((k - 1) \div 3) + 1 + ((k - 1) % 3),
          <<1, 3, 2>>[1 + ((k - 1) % 3)]>>] \o
    [k \in 1..64 |->
        <<39936 + 32 * ((k - 1) \div 2) + ((k - 1) % 2), <<2, 1>>[1 + ((k - 1) % 2)]>>]

\* OAM, <<y_pos, x_pos, tile, flag>> by entry: 14 objects on the lines 0-7
\* (two of them off screen by their x_pos), three on the lines 8-15
VideoObjects ==
    <<<<16, 16, 2, 128>>, <<16, 24, 2, 0>>, <<16, 8, 2, 128>>, <<16, 4, 3, 32>>,
      <<16, 164, 3, 80>>, <<16, 0, 2, 0>>, <<16, 168, 2, 0>>, <<16, 40, 3, 128>>,
      <<16, 48, 2, 16>>, <<16, 56, 3, 96>>, <<16, 64, 2, 0>>, <<16, 72, 2, 128>>,
      <<16, 100, 2, 0>>, <<16, 108, 3, 0>>,
      <<24, 16, 3, 0>>, <<24, 20, 2, 128>>, <<26, 12, 3, 144>>>>

OamWrites ==
    [k \in 1..(4 * Len(VideoObjects)) |->
        <<OAM_ADDRESS + k - 1, VideoObjects[1 + ((k - 1) \div 4)][1 + ((k - 1) % 4)]>>]

\* a setup: LCDC, the script of <<line, LCDC>>, <<scx, scy>>, <<wx, wy>>
PixSetup(lcdc, script, scroll, viewport) ==
    [lcdc |-> lcdc, script |-> script, scroll |-> scroll, viewport |-> viewport]

PixSetups ==
    {PixSetup(147, <<>>, <<0, 0>>, <<0, 0>>),
     PixSetup(147, <<<<1, 146>>>>, <<0, 0>>, <<0, 0>>),
     PixSetup(19, <<>>, <<0, 0>>, <<0, 0>>),
     PixSetup(147, <<<<70, 19>>>>, <<3, 5>>, <<0, 0>>),
     PixSetup(19, <<<<70, 147>>, <<100, 3>>>>, <<0, 0>>, <<0, 0>>),
     PixSetup(179, <<>>, <<5, 250>>, <<87, 4>>),
     PixSetup(0, <<>>, <<0, 0>>, <<0, 0>>),
     PixSetup(235, <<<<9, 107>>>>, <<0, 0>>, <<7, 2>>)}

\* the registers a setup writes, LCDC last
SetupWrites(setup) ==
    <<<<BG_PALETTE_ADDRESS, 228>>, <<OBP0_ADDRESS, 228>>, <<OBP1_ADDRESS, 27>>,
      <<SCX_ADDRESS, setup.scroll[1]>>, <<SCY_ADDRESS, setup.scroll[2]>>,
      <<WX_ADDRESS, setup.viewport[1]>>, <<WY_ADDRESS, setup.viewport[2]>>,
      <<LCDC_ADDRESS, setup.lcdc>>>>

InitPix ==
    /\ cpu = NewCPU
    /\ \E setup \in PixSetups :
          /\ memory = write_all(load_cartidge(load_boot(NewMemory, BootImage), RomOnlyImage),
                                VideoTiles \o VideoMaps \o OamWrites \o SetupWrites(setup))
          /\ hist = [script |-> setup.script, drew |-> FALSE]
          /\ frame = [lit |-> get_flag(setup.lcdc, LCDC_ENABLE_FLAG)]
    /\ clock = NewClock
    /\ graphics = Some(NewGraphics)
    /\ joypad = NewJoypad
    /\ fault = "none"
    /\ overflow_checks = FALSE
    /\ incs = 0
    /\ vblanks = 0
    /\ wr = None

\* GameBoy::run, from handle_interrupts to the rendering
finish_pass(g1) == render_graphics(serial_output(retire(handle_interrupts(g1))))

\* the pass ends in the machine gb, or in the panic gb.fault; hist.drew tells
\* whether the pass drew a scanline, frame.lit whether LCDC bit 7 has been set
\* at the end of some pass
PixCommit(gb, script) ==
    IF Ok(gb)
    THEN /\ memory' = gb.memory
         /\ clock' = gb.clock
         /\ graphics' = gb.graphics
         /\ cpu' = gb.cpu
         /\ vblanks' = gb.vblanks
         /\ hist' = [script |-> script,
                     drew |-> gb.graphics[1].pixels[1].draws # graphics[1].pixels[1].draws]
         /\ frame' = [lit |-> frame.lit \/ get_flag(get_lcdc(gb.memory), LCDC_ENABLE_FLAG)]
         /\ UNCHANGED fault
    ELSE /\ fault' = gb.fault
         /\ UNCHANGED <<memory, clock, graphics, cpu, vblanks, hist, frame>>

\* the next write of the script is due
WriteDue ==
    /\ hist.script # <<>>
    /\ graphics[1].line_y = Head(hist.script)[1]
    /\ graphics[1].last_ppu_mode.mode = 0

\* one pass of the loop of GameBoy::run: an instruction of 6 cycles
PixStep ==
    /\ fault = "none"
    /\ clock.timestamp < MaxPixCycles
    /\ ~WriteDue
    /\ PixCommit(finish_pass(execute_cycles(update(Machine), 6)), hist.script)
    /\ UNCHANGED <<joypad, overflow_checks, incs, wr>>

\* one pass of the loop of GameBoy::run: the program writes LCDC
LcdcStep ==
    /\ fault = "none"
    /\ clock.timestamp < MaxPixCycles
    /\ WriteDue
    /\ PixCommit(finish_pass(execute_ldh(update(Machine), 64, Head(hist.script)[2])),
                 Tail(hist.script))
    /\ UNCHANGED <<joypad, overflow_checks, incs, wr>>

NextPix ==
    \/ PixStep
    \/ LcdcStep

SpecPix == InitPix /\ [][NextPix]_vars

(***************************************************************************)
(* Claims about the timer (SpecTimer).                                     *)
(***************************************************************************)
Tima == read_byte(memory, TIMA_ADDRESS)
Tma == read_byte(memory, TMA_ADDRESS)
Tac == read_byte(memory, TAC_ADDRESS)
IntFlag == read_byte(memory, INTERRUPT_FLAG_ADDRESS)
IntEnable == read_byte(memory, INTERRUPT_ENABLE_ADDRESS)

\* TIMA after k increments from t, each overflow from 0xFF reloading tma
RECURSIVE TimaAfter(_, _, _)
TimaAfter(t, tma, k) ==
    IF k = 0 THEN t
    ELSE TimaAfter(IF t = 255 THEN tma ELSE t + 1, tma, k - 1)

\* C8: with TAC bit 2 set, a tick that performs k TIMA increments leaves TIMA
\* where k increments with reload from TMA on each overflow from 0xFF put it,
\* sets IF bit 2 when one of them overflowed and leaves IF untouched when none
\* did; and with TAC=0x05, TMA=0xAB, TIMA=0xFF, 4 machine cycles leave
\* TIMA=0xAB and IF bit 2 set.
C8_TimerOverflow ==
    /\ [][get_flag(Tac, TAC_ENABLE_FLAG) =>
            LET k == incs' - incs
            IN  /\ read_byte(memory', TIMA_ADDRESS) = TimaAfter(Tima, Tma, k)
                /\ k >= 256 - Tima =>
                      get_flag(read_byte(memory', INTERRUPT_FLAG_ADDRESS), TIMER_FLAG)
                /\ k < 256 - Tima =>
                      read_byte(memory', INTERRUPT_FLAG_ADDRESS) = IntFlag]_vars
    /\ [](Tac = 5 /\ Tma = 171 /\ hist.tima0 = 255 /\ clock.timestamp = 4
            => Tima = 171 /\ get_flag(IntFlag, TIMER_FLAG))

\* the scenario's end state: TIMA reloaded from TMA after four machine cycles
C8_Witness ==
    /\ Tac = 5 /\ Tma = 171 /\ hist.tima0 = 255 /\ clock.timestamp = 4
    /\ Tima = 171 /\ get_flag(IntFlag, TIMER_FLAG) /\ incs = 1

\* C9: with TAC enabled and unchanged, after ticks totalling N machine cycles
\* the number of TIMA increments performed is floor(4N / P), P the period of
\* TAC[1:0], and the residual T-state counter is below P.
C9_TimaCount ==
    get_flag(Tac, TAC_ENABLE_FLAG) =>
        /\ period(Tac) = CASE Tac % 4 = 0 -> 1024 [] Tac % 4 = 1 -> 16
                           [] Tac % 4 = 2 -> 64 [] Tac % 4 = 3 -> 256
        /\ incs = (4 * clock.timestamp) \div period(Tac)
        /\ clock.timer_counter < period(Tac)

\* a single tick spanned several periods of the slowest-but-one clock and
\* left a residue
C9_Witness ==
    /\ get_flag(Tac, TAC_ENABLE_FLAG) /\ Tac % 4 = 3
    /\ hist.last >= 2 /\ clock.timer_counter > 0 /\ incs >= 3

(***************************************************************************)
(* Claims about the memory interface (SpecMem).                            *)
(***************************************************************************)
\* C10 as claimed: for every address the cartridge state allows to be written
\* (any address with no cartridge, any address >= 0x8000 with a ROM-only
\* cartridge) and every byte, write8 returns and read8 then returns the byte.
C10_ReadAfterWrite ==
    (wr.n > 0 /\ ( \/ memory.cartridge = "None"
                   \/ memory.cartridge = "RomOnly" /\ wr.address >= 32768))
        => fault = "none" /\ read_byte(memory, wr.address) = wr.byte

\* C11: with the boot ROM and a ROM-only cartridge loaded before the first
\* write, every read of 0x0000-0x00FF returns the byte of the boot ROM as
\* long as no write of 0xFF50 has returned, and the byte of bank 0 of the
\* cartridge at every time after one has, whatever was written since.
C11_BootOverlay ==
    (Loaded /\ memory.cartridge = "RomOnly" /\ ~wr.early)
        => \A address \in 0..(BOOTROM_SIZE - 1) :
              read_byte(memory, address) =
                  IF wr.unmapped THEN Peek(RomOnlyImage.data, address)
                                 ELSE Peek(BootImage.data, address)

\* the boot ROM was unmapped by the first write and address 0 was written
\* afterwards: it still reads as the first byte of the cartridge
C11_Witness ==
    /\ Loaded /\ memory.cartridge = "RomOnly" /\ ~wr.early
    /\ wr.unmapped /\ wr.n = 2 /\ wr.address = 0 /\ wr.byte = 255
    /\ read_byte(memory, 0) = 195

\* C12: when write_byte(0xFF46, n) returns, for every i in 0..159 the byte at
\* 0xFE00+i is the byte that was at (n<<8)+i just before the call, source and
\* destination overlapping or not.
C12_DmaCopy ==
    [][(wr'.n = wr.n + 1 /\ wr'.address = DMA_ADDRESS)
          => /\ fault' = "none"
             /\ \A i \in 0..159 :
                   read_byte(memory', OAM_ADDRESS + i) =
                       read_byte(memory, bytes2word(0, wr'.byte) + i)]_vars

\* a DMA from page 1 has brought the cartridge byte at 0x0100 to 0xFE00
C12_Witness ==
    /\ Loaded /\ ~wr.early /\ wr.n > 0
    /\ wr.address = DMA_ADDRESS /\ wr.byte = 1
    /\ read_byte(memory, 256) = 118 /\ read_byte(memory, OAM_ADDRESS) = 118

\* the ROM bank a value written to 0x2000-0x3FFF selects
SelectedBank(byte) == IF byte % 32 = 0 THEN 1 ELSE byte % 32

\* C13 as claimed: with an MBC1 or MBC3 cartridge a write below 0x8000
\* returns, and after a write to 0x2000-0x3FFF selecting a bank b of the
\* cartridge every address of 0x4000-0x7FFF reads as the byte of bank b.
C13_BankSelect ==
    (wr.n > 0 /\ ~wr.early /\ memory.cartridge \in {"MBC1", "MBC3"}
              /\ wr.address < 32768)
        => /\ fault = "none"
           /\ (wr.address \in 8192..16383 /\ SelectedBank(wr.byte) < Len(memory.rom))
                 => \A address \in 16384..32767 :
                       read_byte(memory, address) =
                           Peek(memory.rom[SelectedBank(wr.byte) + 1], address - 16384)

\* C14: with a ROM-only cartridge write_byte(a, v) returns; for a < 0x8000 it
\* leaves the 64 KiB array, the ROM banks and the cartridge state as they
\* were, and for a >= 0x8000 the byte at a is v afterwards.
C14_RomOnlyWrites ==
    [][(memory.cartridge = "RomOnly" /\ wr'.n = wr.n + 1)
          => /\ fault' = "none"
             /\ wr'.address < 32768 => memory' = memory
             /\ wr'.address >= 32768 => read_byte(memory', wr'.address) = wr'.byte]_vars

\* a non-zero byte was written to 0x2000 of a loaded ROM-only cartridge
C14_Witness ==
    /\ Loaded /\ memory.cartridge = "RomOnly" /\ ~wr.early
    /\ wr.n > 0 /\ wr.address = 8192 /\ wr.byte = 1
    /\ read_byte(memory, 8192) = 0

\* C15 as claimed: after any write to 0xFF04 the byte read at 0xFF04 is 0.
C15_DivReset ==
    (wr.n > 0 /\ wr.address = DIV_ADDRESS /\ fault = "none")
        => read_byte(memory, DIV_ADDRESS) = 0

(***************************************************************************)
(* Claims about the interrupt machinery (SpecCPU).  hist.cur is the pass   *)
(* of the main loop that led to the current state, hist.prev the pass      *)
(* before it; svc is the machine as handle_interrupts found it.            *)
(***************************************************************************)
InterruptVectors == {64, 72, 80, 88, 96}

\* the vector of the highest-priority source among bits 0-4 of flag_bytes
VectorOf(flag_bytes) ==
    CHOOSE v \in InterruptVectors \cup {0} :
        \/ /\ BitAnd(flag_bytes, 31) = 0
           /\ v = 0
        \/ \E bit \in 0..4 :
              /\ get_flag(flag_bytes, 2 ^ bit)
              /\ \A lower \in 0..(bit - 1) : ~get_flag(flag_bytes, 2 ^ lower)
              /\ v = 64 + 8 * bit

\* C3: at an interrupt-service point with IME enabled and IE & IF # 0 the CPU
\* clears IME, pushes PC (high byte at SP-1, low byte at SP-2, SP decreased
\* by 2) and loads PC with the vector of the highest-priority pending source
\* among bits 0-4, for every value of IE and IF: PC after a dispatch is one
\* of the five vectors.
C3_Dispatch ==
    (hist.cur.svc.ime /\ hist.cur.svc.pending # 0) =>
        /\ cpu.ime = <<None, FALSE>>
        /\ cpu.sp = (hist.cur.svc.sp - 2) % 65536
        /\ read_byte(memory, (hist.cur.svc.sp - 1) % 65536) = get_high(hist.cur.svc.pc)
        /\ read_byte(memory, (hist.cur.svc.sp - 2) % 65536) = get_low(hist.cur.svc.pc)
        /\ cpu.pc \in InterruptVectors
        /\ cpu.pc = VectorOf(hist.cur.svc.pending)

\* C4: after a pass of the main loop in which an interrupt is dispatched, the
\* timestamp is its value before the pass plus the cycles of the executed
\* instruction (or the 1 halted cycle) plus 5.
C4_DispatchCycles ==
    hist.cur.dispatched =>
        clock.timestamp = hist.cur.t0 + hist.cur.cycles + 5

\* the consequent of C5: IME is disabled while the instruction after EI
\* executes and at its service point, enabled once it has retired, and nothing
\* is dispatched at the service point of EI or of that instruction
EiTakesEffectLate ==
    /\ ~hist.cur.ime0[2]
    /\ ~hist.cur.svc.ime
    /\ get_ime(cpu)
    /\ ~hist.prev.dispatched
    /\ ~hist.cur.dispatched

\* C5 as stated: after EI executes with IME disabled, IME is still disabled
\* while the following instruction executes and at its service point, and is
\* enabled once it has retired, provided no DI and no dispatch intervenes.
C5_EiDelay_AsStated ==
    (/\ hist.prev.op = "EI"
     /\ ~hist.prev.ime0[2]
     /\ hist.cur.op # "DI") => EiTakesEffectLate

\* C5, amended: after EI executes with IME disabled and no enable already
\* counting down, and the following instruction is neither DI nor RETI, IME
\* is disabled while that instruction executes and at its service point and
\* enabled once it has retired; nothing is dispatched before then.
C5_EiDelay ==
    (/\ hist.prev.op = "EI"
     /\ hist.prev.ime0 = <<None, FALSE>>
     /\ hist.cur.op \notin {"DI", "RETI"}) => EiTakesEffectLate

C5_Witness ==
    /\ hist.prev.op = "EI"
    /\ hist.prev.ime0 = <<None, FALSE>>
    /\ hist.prev.svc.pending # 0
    /\ hist.cur.op = "NOP"
    /\ get_ime(cpu)

\* C6: for EI; DI started with IME disabled and an interrupt pending, IME is
\* disabled after both instructions and nothing is dispatched; and with no
\* enable pending, a pass that executes neither EI nor RETI leaves IME off.
C6_EiDi ==
    /\ []((/\ hist.prev.op = "EI"
           /\ ~hist.prev.ime0[2]
           /\ hist.prev.svc.pending # 0
           /\ hist.cur.op = "DI") =>
              /\ cpu.ime = <<None, FALSE>>
              /\ ~hist.prev.dispatched
              /\ ~hist.cur.dispatched)
    /\ [][(cpu.ime = <<None, FALSE>> /\ hist'.cur.op \notin {"EI", "RETI"}) =>
              cpu'.ime = <<None, FALSE>>]_vars

C6_Witness ==
    /\ hist.prev.op = "EI"
    /\ ~hist.prev.ime0[2]
    /\ hist.prev.svc.pending # 0
    /\ hist.cur.op = "DI"
    /\ hist.cur.svc.pending # 0
    /\ cpu.ime = <<None, FALSE>>

\* C7: when the CPU is halted and IE & IF # 0 at an interrupt-service point,
\* the halt flag is cleared whether IME is enabled or not; with IME disabled
\* the CPU is left at the instruction after HALT, nothing is dispatched, PC is
\* not pushed and IF is unchanged.
C7_HaltExit ==
    (hist.cur.svc.halt /\ hist.cur.svc.pending # 0) =>
        /\ ~cpu.halt
        /\ ~hist.cur.svc.ime =>
              /\ cpu.pc = (hist.halt_pc + 1) % 65536
              /\ cpu.sp = hist.cur.svc.sp
              /\ IntFlag = hist.cur.svc.iflag
              /\ ~hist.cur.dispatched

C7_Witness ==
    /\ hist.cur.op = "IDLE"
    /\ hist.cur.svc.halt
    /\ hist.cur.svc.pending # 0
    /\ ~hist.cur.svc.ime
    /\ hist.cur.svc.iflag # hist.prev.svc.iflag
    /\ ~cpu.halt

(***************************************************************************)
(* Claims about the PPU (SpecPPU).  frame.start is the line time           *)
(* (Graphics.last_timestamp) at which line 0 of the current frame began,   *)
(* frame.vbl0 the number of VBLANK requests made before it.                *)
(***************************************************************************)
LY == read_byte(memory, LY_ADDRESS)

FRAME_CYCLES == 154 * SCANLINE_CYCLES

C2_VblankOnce ==
    /\ [](vblanks - frame.vbl0 = IF graphics[1].line_y >= 144 THEN 1 ELSE 0)
    /\ [][IF /\ graphics[1].last_ppu_mode = PPUMode(0, 143)
             /\ graphics'[1].last_ppu_mode = PPUMode(1, 144)
          THEN /\ vblanks' = vblanks + 1
               /\ get_flag(IntFlag', VBLANK_FLAG)
          ELSE /\ vblanks' = vblanks
               /\ get_flag(IntFlag', VBLANK_FLAG) => get_flag(IntFlag, VBLANK_FLAG)]_vars

C2_Witness ==
    /\ frame.n = 1
    /\ vblanks = 2
    /\ graphics[1].last_ppu_mode = PPUMode(1, 144)
    /\ get_flag(IntFlag, VBLANK_FLAG)

(***************************************************************************)
(* Claims about the joypad (SpecJoy).                                      *)
(***************************************************************************)
JoypadRegister == read_byte(memory, JOYPAD_REGISTER_ADDRESS)

\* the buttons by row and data bit: <<row, bit, button code>>
ButtonTable ==
    {<<"dpad", 0, RIGHT_BUTTON>>, <<"dpad", 1, LEFT_BUTTON>>,
     <<"dpad", 2, UP_BUTTON>>, <<"dpad", 3, DOWN_BUTTON>>,
     <<"buttons", 0, A_BUTTON>>, <<"buttons", 1, B_BUTTON>>,
     <<"buttons", 2, SELECT_BUTTON>>, <<"buttons", 3, START_BUTTON>>}

\* the rows selected in a value of 0xFF00 (the selector bits are active-low)
RowsSelected(flags) ==
    {row \in {"dpad", "buttons"} :
        ~get_flag(flags, IF row = "dpad" THEN DPAD_FLAG ELSE BUTTONS_FLAG)}

\* a button of the row at the data bit is held
HeldAt(row, bit) ==
    \E b \in ButtonTable :
        b[1] = row /\ b[2] = bit /\ code_keys[b[3]] \in joypad.last_keys

\* C16: Joypad::update, called with exactly one row selected in 0xFF00,
\* leaves each of bits 0-3 at 1 unless the button of the selected row at that
\* bit is held, whatever the bits were before and whatever is held in the
\* other row; called with no row selected it leaves bits 0-3 all at 1.
C16_JoypadUpdate ==
    [][hist'.op = "update"
          => /\ \A row \in {"dpad", "buttons"} :
                   RowsSelected(JoypadRegister) = {row}
                       => \A bit \in 0..3 :
                             get_flag(JoypadRegister', 2 ^ bit) <=> ~HeldAt(row, bit)
             /\ RowsSelected(JoypadRegister) = {}
                   => JoypadRegister' % 16 = 15]_vars

\* the D-pad row is selected, Up and (in the other row) A are held, and the
\* update has left only bit 2 low
C16_Witness ==
    /\ hist.op = "update"
    /\ RowsSelected(JoypadRegister) = {"dpad"}
    /\ joypad.last_keys = {"W", "K"}
    /\ JoypadRegister % 16 = 11

\* the row of a key, by the arms of Joypad::handle_button
KeyRow(keycode) == IF keycode \in DpadKeys THEN "dpad" ELSE "buttons"

\* C17 as claimed: a key-down for a button that was not held raises the
\* JOYPAD bit of IF exactly when the button's row is selected in 0xFF00; any
\* other key event leaves IF as it was.
C17_KeyInterrupt ==
    [][hist'.op = "key"
          => IF \E keycode \in DpadKeys \cup ButtonKeys :
                  /\ keycode \notin joypad.last_keys
                  /\ joypad'.last_keys = joypad.last_keys \cup {keycode}
                  /\ KeyRow(keycode) \in RowsSelected(JoypadRegister)
             THEN IntFlag' = set_flag(IntFlag, JOYPAD_FLAG)
             ELSE IntFlag' = IntFlag]_vars
(***************************************************************************)
(* Claims about the pixel pipeline (SpecPix).  Pixels.strip holds, for the  *)
(* scanline drawn last, the background pixel and the object pixel popped    *)
(* at each x and the pixel Graphics::mix made of them.                      *)
(***************************************************************************)
Pixels == graphics[1].pixels[1]
Lcdc == get_lcdc(memory)

\* the pixel line_pixels holds where no object was merged
NoObjectPixel == Pixel(0, ObjectSource(0))

\* C18: the map of objects ObjFIFO::next_line builds for a scanline has at
\* most 10 entries, each an OAM entry that intersects the line, and every
\* object pixel of the line that an object contributed comes from an object
\* of the map.
C18_SpriteLimit ==
    /\ Cardinality(DOMAIN Pixels.obj_fifo.obj_attr) <= 10
    /\ hist.drew =>
          /\ Pixels.obj_fifo.screen_y = graphics[1].line_y
          /\ \A number \in DOMAIN Pixels.obj_fifo.obj_attr :
                /\ number \in 0..(OBJ_COUNT - 1)
                /\ intersects(oam_object(memory, number), graphics[1].line_y)
          /\ \A x \in 1..SCREEN_WIDTH :
                \/ Pixels.strip[x].obp = NoObjectPixel
                \/ Pixels.strip[x].obp.pixel_source.number \in DOMAIN Pixels.obj_fifo.obj_attr

\* twelve objects of OAM intersect the line drawn, ten are in the map, and an
\* object pixel is shown on the line
C18_Witness ==
    /\ hist.drew
    /\ Cardinality({number \in 0..(OBJ_COUNT - 1) :
                       intersects(oam_object(memory, number), graphics[1].line_y)}) = 12
    /\ Cardinality(DOMAIN Pixels.obj_fifo.obj_attr) = 10
    /\ \E x \in 1..SCREEN_WIDTH : ~Pixels.strip[x].pixel.pixel_source.background

\* the priority bit of an object in OAM
ObjectPriority(number) ==
    get_flag(read_byte(memory, OAM_ADDRESS + 4 * number + 3), OBJ_PRIORITY_FLAG)

\* the mixed pixel as C19 states it
MixedAsStated(bp, op) ==
    IF op.color_ref = 0 THEN bp
    ELSE IF ~get_flag(Lcdc, BGW_ENABLE_FLAG) THEN op
    ELSE IF ObjectPriority(op.pixel_source.number) /\ bp.color_ref >= 1 THEN bp
    ELSE op

\* C19 as claimed: at every position of a scanline the mixed pixel is BP when
\* OP has colour index 0, else OP when bit 0 of LCDC is clear, else BP when
\* the object has its priority bit set and BP has an index >= 1, else OP; and
\* a priority object pixel of index 1 over a background pixel of index 2 is
\* shown (the LCD being on) in the colour BGP gives index 2.
C19_Mix ==
    hist.drew =>
        \A x \in 1..SCREEN_WIDTH :
            /\ Pixels.strip[x].pixel = MixedAsStated(Pixels.strip[x].bgp, Pixels.strip[x].obp)
            /\ ( /\ Pixels.strip[x].obp.color_ref = 1
                 /\ ObjectPriority(Pixels.strip[x].obp.pixel_source.number)
                 /\ Pixels.strip[x].bgp.color_ref = 2
                 /\ get_flag(Lcdc, BGW_ENABLE_FLAG) /\ get_flag(Lcdc, LCDC_ENABLE_FLAG) )
                  => Pixels.row[x] = palette_color(read_byte(memory, BG_PALETTE_ADDRESS), 2)

\* C20: every colour draw_scanline emits while bit 7 of LCDC is 0 is
\* (0, 0, 0) and so is the line of the screen buffer it writes; and a frame
\* presented after passes that all ended with bit 7 of LCDC at 0 is black in
\* every pixel.
C20_LcdOff ==
    /\ (hist.drew /\ ~get_flag(Lcdc, LCDC_ENABLE_FLAG))
          => /\ \A x \in 1..SCREEN_WIDTH : Pixels.row[x] = <<0, 0, 0>>
             /\ Row(Pixels.screen_buffer, graphics[1].line_y) = BlackRow
    /\ (Pixels.frames > 0 /\ ~frame.lit)
          => \A line \in 0..(SCREEN_HEIGHT - 1) : Row(Pixels.presented, line) = BlackRow

\* a frame was presented after 144 scanlines drawn with the LCD off, the
\* background and the objects enabled; the last line had pixels whose
\* palette colour is not black
C20_Witness ==
    /\ Pixels.frames = 1 /\ Pixels.draws = SCREEN_HEIGHT /\ ~frame.lit
    /\ get_flag(Lcdc, BGW_ENABLE_FLAG) /\ get_flag(Lcdc, OBJ_ENABLE_FLAG)
    /\ \E x \in 1..SCREEN_WIDTH :
          pixel_to_color(Pixels.obj_fifo, Pixels.strip[x].pixel, memory) # BLACK
(***************************************************************************)
(* Claims about the PPU mode within a line (SpecPPU).                       *)
(***************************************************************************)
\* the machine cycles since the line of the PPU began
LineOffset == clock.timestamp - graphics[1].last_timestamp

\* the mode bits of STAT
StatMode == BitAnd(read_byte(memory, LCD_STATUS_ADDRESS), 3)

\* C21 as claimed: after every pass of the main loop the PPU mode (the mode
\* of Graphics and the mode bits of STAT) is, on lines 0-143, mode 2 at the
\* offsets 0-19 of the line and at no other offset, mode 3 from offset 20 on
\* for between 20 and 72 cycles, mode 0 from then to offset 113; and mode 1
\* on lines 144-153.
C21_ModeTimeline ==
    clock.timestamp > 0 =>
        /\ StatMode = graphics[1].last_ppu_mode.mode
        /\ graphics[1].last_ppu_mode.line = graphics[1].line_y
        /\ LineOffset \in 0..(SCANLINE_CYCLES - 1)
        /\ graphics[1].line_y >= 144 => StatMode = 1
        /\ graphics[1].line_y <= 143 =>
              /\ StatMode \in {0, 2, 3}
              /\ StatMode = 2 <=> LineOffset <= 19
              /\ LineOffset \in 20..39 => StatMode = 3
              /\ LineOffset >= 20 + 72 => StatMode = 0
(***************************************************************************)
(* SpecIns: CPU::execute applied as the tests of test.rs apply it: a       *)
(* Memory::new() holding the program at address 0 (Memory::write_test), a  *)
(* CPU::new() whose registers were set, a Clock::new(), and then calls of  *)
(* CPU::execute.  The low nibble of f is 0 in every CPU that is set up.    *)
(***************************************************************************)
\* Memory::write_test
write_test(m, rom) ==
    [m EXCEPT !.memory =
        CopyRange(@, 0, [a \in {i - 1 : i \in {j \in 1..Len(rom) : rom[j] # 0}} |-> rom[a + 1]],
                  0, Len(rom))]

\* the 16 values of f
Flags == {16 * n : n \in 0..15}

\* what the last call of CPU::execute was applied to
NoExecute ==
    [n |-> 0, limit |-> 0, ops |-> <<>>, second |-> 0, third |-> 0,
     start |-> NewCPU, cpu0 |-> NewCPU, t0 |-> 0, memory0 |-> EmptyArray]

\* the harness: program, CPU and number of calls of CPU::execute
Harness(rom, c, calls) ==
    /\ memory = write_test(NewMemory, rom)
    /\ cpu = c
    /\ clock = NewClock
    /\ graphics = None
    /\ joypad = NewJoypad
    /\ fault = "none"
    /\ incs = 0
    /\ vblanks = 0
    /\ hist = [NoExecute EXCEPT !.limit = calls, !.start = c, !.cpu0 = c]
    /\ wr = None
    /\ frame = None

\* one instruction of every first byte: the operand bytes, the flags, the
\* registers and the stack pointer from small sets
OneOperands == {<<52, 18>>, <<255, 128>>}
OneRegisters == {<<0, 1>>, <<143, 192>>}
OneStacks == {49152, 65534}
OneCalls == 1

InitOne ==
    \E opcode \in 0..255, operands \in OneOperands, f \in Flags, r \in OneRegisters,
       sp \in OneStacks :
        /\ opcode # 203
        /\ Harness(<<opcode, operands[1], operands[2]>>,
                   [NewCPU EXCEPT !.a = r[1], !.b = r[2], !.c = r[1], !.d = r[2],
                                  !.e = r[1], !.h = r[2], !.l = r[1], !.f = f, !.sp = sp],
                   OneCalls)
        /\ overflow_checks \in BOOLEAN

\* one instruction of every second byte after 0xCB
PrefixedFlags == {0, 16, 240}

InitPrefixed ==
    \E second \in 0..255, f \in PrefixedFlags, r \in OneRegisters :
        /\ Harness(<<203, second, 52>>,
                   [NewCPU EXCEPT !.a = r[1], !.b = r[2], !.c = r[1], !.d = r[2],
                                  !.e = r[1], !.h = r[2], !.l = r[1], !.f = f, !.sp = 49152],
                   OneCalls)
        /\ overflow_checks \in BOOLEAN

\* SWAP r twice, for every value of every register
SwapRegisters == {"B", "C", "D", "E", "H", "L", "A"}
SwapFlags == {0, 240}
SwapCalls == 2

swap_opcode(r) ==
    CASE r = "B" -> 48 [] r = "C" -> 49 [] r = "D" -> 50 [] r = "E" -> 51
      [] r = "H" -> 52 [] r = "L" -> 53 [] r = "A" -> 55

InitSwap ==
    \E r \in SwapRegisters, value \in 0..255, f \in SwapFlags :
        /\ Harness(<<203, swap_opcode(r), 203, swap_opcode(r)>>,
                   set_register([NewCPU EXCEPT !.f = f], r, value), SwapCalls)
        /\ overflow_checks = TRUE

\* programs run from the power-on state of CPU::new: POP AF and PUSH AF among
\* instructions that write the flags, the stack being the program itself
SeqOpcodes == {241, 245, 55, 63, 60, 39, 128, 193, 23}
SeqCalls == 3

InitSeq ==
    \E o1 \in SeqOpcodes, o2 \in SeqOpcodes, o3 \in SeqOpcodes :
        /\ Harness(<<o1, o2, o3>>, NewCPU, SeqCalls)
        /\ overflow_checks \in BOOLEAN

InitIns == InitOne \/ InitPrefixed \/ InitSwap \/ InitSeq

\* the call of CPU::execute ends in the machine gb, or in the panic gb.fault
CommitExecute(gb) ==
    /\ IF Ok(gb)
       THEN /\ cpu' = gb.cpu
            /\ memory' = gb.memory
            /\ clock' = gb.clock
            /\ incs' = gb.incs
            /\ UNCHANGED fault
       ELSE /\ fault' = gb.fault
            /\ UNCHANGED <<cpu, memory, clock, incs>>
    /\ hist' = [hist EXCEPT !.n = @ + 1,
                            !.ops = Append(@, read_byte(memory, cpu.pc)),
                            !.second = read_byte(memory, (cpu.pc + 1) % 65536),
                            !.third = read_byte(memory, (cpu.pc + 2) % 65536),
                            !.cpu0 = cpu,
                            !.t0 = clock.timestamp,
                            !.memory0 = memory.memory]

\* cpu.execute(&mut memory, &mut clock)
Execute ==
    /\ fault = "none"
    /\ hist.n < hist.limit
    /\ CommitExecute(execute(Machine))
    /\ UNCHANGED <<graphics, joypad, overflow_checks, vblanks, wr, frame>>

NextIns == Execute

SpecIns == InitIns /\ [][NextIns]_vars

(***************************************************************************)
(* Claims about single instructions (SpecIns).                             *)
(***************************************************************************)
\* the first byte of the instruction of the last call of CPU::execute
LastOp == hist.ops[Len(hist.ops)]

\* the last call of CPU::execute returned
Executed == hist.n > 0 /\ fault = "none"

\* the last call of CPU::execute panicked
Panicked == hist.n > 0 /\ fault # "none"

\* the machine cycles the last call of CPU::execute put on the clock
Cycles == clock.timestamp - hist.t0

\* the condition cc of a conditional branch (bits 3-4 of its opcode: NZ, Z,
\* NC, C) holds in the flags f
ConditionHolds(opcode, f) ==
    CASE (opcode \div 8) % 4 = 0 -> BitAnd(f, 128) = 0
      [] (opcode \div 8) % 4 = 1 -> BitAnd(f, 128) # 0
      [] (opcode \div 8) % 4 = 2 -> BitAnd(f, 16) = 0
      [] (opcode \div 8) % 4 = 3 -> BitAnd(f, 16) # 0

JpCc == {194, 202, 210, 218}
JrCc == {32, 40, 48, 56}
CallCc == {196, 204, 212, 220}
RetCc == {192, 200, 208, 216}
Rst == {199, 207, 215, 223, 231, 239, 247, 255}
Branches == {195, 24, 205, 201, 217, 233} \cup JpCc \cup JrCc \cup CallCc \cup RetCc \cup Rst

\* the machine cycles of a branch as documented
BranchCycles(opcode, f) ==
    CASE opcode = 195 -> 4
      [] opcode \in JpCc -> IF ConditionHolds(opcode, f) THEN 4 ELSE 3
      [] opcode = 24 -> 3
      [] opcode \in JrCc -> IF ConditionHolds(opcode, f) THEN 3 ELSE 2
      [] opcode = 205 -> 6
      [] opcode \in CallCc -> IF ConditionHolds(opcode, f) THEN 6 ELSE 3
      [] opcode = 201 -> 4
      [] opcode \in RetCc -> IF ConditionHolds(opcode, f) THEN 5 ELSE 2
      [] opcode = 217 -> 4
      [] opcode \in Rst -> 4
      [] opcode = 233 -> 1

\* C22: a branch that was executed put on the clock its documented count of
\* machine cycles: JP nn 4, JP cc 4 taken and 3 not taken, JR 3, JR cc 3/2,
\* CALL 6, CALL cc 6/3, RET 4, RET cc 5/2, RETI 4, RST 4, JP HL 1, the
\* condition being evaluated on the flags before the instruction, whatever
\* they were.
C22_BranchCycles ==
    (Executed /\ LastOp \in Branches) => Cycles = BranchCycles(LastOp, hist.cpu0.f)

\* a RET C taken (5 cycles) and, in another run, a CALL NZ not taken (3 cycles)
C22_Witness ==
    /\ Executed
    /\ \/ LastOp = 216 /\ BitAnd(hist.cpu0.f, 16) # 0 /\ Cycles = 5
          /\ cpu.sp = hist.cpu0.sp + 2
       \/ LastOp = 196 /\ BitAnd(hist.cpu0.f, 128) # 0 /\ Cycles = 3
          /\ cpu.pc = hist.cpu0.pc + 3

\* the bytes that are no opcode of the LR35902
Undefined == {211, 219, 221, 227, 228, 235, 236, 237, 244, 252, 253}

\* the opcodes with a 16-bit operand, and those with an 8-bit operand (STOP,
\* 0x10, is followed by one byte), as documented
WordOperand == {1, 17, 33, 49, 8, 195, 205, 234, 250} \cup JpCc \cup CallCc
SignedOperand == {24, 232, 248} \cup JrCc
ByteOperand ==
    {6, 14, 22, 30, 38, 46, 54, 62, 198, 206, 214, 222, 230, 238, 246, 254, 224, 240}
    \cup SignedOperand

\* the documented length of the instruction of first byte opcode
DocumentedSize(opcode) ==
    IF opcode \in WordOperand THEN 3
    ELSE IF opcode \in ByteOperand \cup {16, 203} THEN 2
    ELSE 1

\* the operand of the instruction as documented: little-endian, the 8-bit
\* displacements signed
DocumentedOperand(opcode, second, third) ==
    IF opcode \in WordOperand THEN second + 256 * third
    ELSE IF opcode \in SignedOperand /\ second >= 128 THEN second - 256
    ELSE second

\* the instruction at address is decoded with its documented size and operand
DecodedAsDocumented(address) ==
    /\ decode(memory, address) # None
    /\ decode(memory, address)[1].size = DocumentedSize(read_byte(memory, address))
    /\ read_byte(memory, address) \in WordOperand \cup ByteOperand =>
          decode(memory, address)[1].args[Len(decode(memory, address)[1].args)] =
             DocumentedOperand(read_byte(memory, address), read_byte(memory, address + 1),
                               read_byte(memory, address + 2))

\* the last instruction was no jump, call, return or RST, or was a
\* conditional one whose condition did not hold
NotTaken ==
    \/ LastOp \notin Branches
    \/ /\ LastOp \in JpCc \cup JrCc \cup CallCc \cup RetCc
       /\ ~ConditionHolds(LastOp, hist.cpu0.f)

\* C23 as claimed: every defined first byte (and every second byte after
\* 0xCB) is decoded into an instruction of its documented size, 1, 2 or 3
\* (2 after 0xCB), with the operand read little-endian from the bytes that
\* follow, and an executed instruction that is not a taken jump, call, return
\* or RST leaves PC advanced by that size.
C23_DecodeSizes ==
    /\ (fault = "none" /\ cpu.pc <= 65533 /\ read_byte(memory, cpu.pc) \notin Undefined) =>
          DecodedAsDocumented(cpu.pc)
    /\ (Executed /\ LastOp \notin Undefined /\ NotTaken) =>
          cpu.pc = (hist.cpu0.pc + DocumentedSize(LastOp)) % 65536

\* C24 as claimed: a byte at PC that is no opcode of the LR35902 (0xD3, 0xDB,
\* 0xDD, 0xE3, 0xE4, 0xEB, 0xEC, 0xED, 0xF4, 0xFC, 0xFD) is decoded into no
\* instruction, and the call of CPU::execute that finds it ends in a panic
\* with the registers, PC, SP, the memory and the clock as they were.
C24_UndefinedFatal ==
    /\ (fault = "none" /\ read_byte(memory, cpu.pc) \in Undefined) =>
          decode(memory, cpu.pc) = None
    /\ (hist.n > 0 /\ LastOp \in Undefined) =>
          /\ fault # "none"
          /\ cpu = hist.cpu0
          /\ memory.memory = hist.memory0
          /\ clock.timestamp = hist.t0

\* C25: whatever was executed, the low nibble of F is 0, AF reads with the
\* low nibble of its low byte 0, and the byte that PUSH AF stored for F is F
\* masked to 0xF0; POP AF of a byte whose low nibble is not 0 included.
C25_FlagNibble ==
    /\ cpu.f % 16 = 0
    /\ get_register16(cpu, "AF") = bytes2word(BitAnd(cpu.f, 240), cpu.a)
    /\ (Executed /\ LastOp = 245) =>
          /\ read_byte(memory, cpu.sp) = BitAnd(hist.cpu0.f, 240)
          /\ read_byte(memory, (cpu.sp + 1) % 65536) = hist.cpu0.a

\* POP AF took 0xF1 from the stack, and the PUSH AF after it stored 0xF0
C25_Witness ==
    /\ Executed
    /\ hist.ops = <<241, 245>>
    /\ Peek(hist.memory0, 0) = 241
    /\ hist.cpu0.f = 240
    /\ read_byte(memory, cpu.sp) = 240

(***************************************************************************)
(* SpecDaa: the harness of test.rs running ADD A,r; DAA; DAA for every      *)
(* value of A and of the operand (r = B, and r = A).                        *)
(***************************************************************************)
DaaCalls == 3

InitDaa ==
    /\ \/ \E a \in 0..255, b \in 0..255 :
             Harness(<<128, 39, 39>>, [NewCPU EXCEPT !.a = a, !.b = b], DaaCalls)
       \/ \E a \in 0..255 :
             Harness(<<135, 39, 39>>, [NewCPU EXCEPT !.a = a], DaaCalls)
    /\ overflow_checks = TRUE

SpecDaa == InitDaa /\ [][NextIns]_vars

(***************************************************************************)
(* Claims about DAA (SpecDaa).                                             *)
(***************************************************************************)
\* the last three instructions executed were ADD A,r; DAA; DAA
DaaTwice ==
    /\ Executed
    /\ Len(hist.ops) >= 3
    /\ SubSeq(hist.ops, Len(hist.ops) - 2, Len(hist.ops)) \in {<<128, 39, 39>>, <<135, 39, 39>>}

\* the last DAA left A and the flags as it found them
DaaUnchanged == cpu.a = hist.cpu0.a /\ cpu.f = hist.cpu0.f

\* C26 as claimed: after ADD A,r the second of two DAA leaves A and the
\* flags Z, N, H, C as the first DAA left them, for every A and operand.
C26_DaaIdempotent == DaaTwice => DaaUnchanged

\* C26, amended: after ADD A,r the second of two DAA leaves A and the flags
\* as the first DAA left them exactly when the first DAA left C clear and
\* both nibbles of A at most 9; in every other case it changes A.
C26_DaaTwice ==
    DaaTwice =>
        /\ DaaUnchanged <=>
              /\ BitAnd(hist.cpu0.f, 16) = 0
              /\ hist.cpu0.a % 16 <= 9
              /\ hist.cpu0.a \div 16 <= 9
        /\ ~DaaUnchanged => cpu.a # hist.cpu0.a

\* 0x15 + 0x27: the first DAA made 0x42 of 0x3C, the second left it
C26_Witness ==
    /\ DaaTwice
    /\ cpu.b = 39
    /\ hist.cpu0.a = 66
    /\ cpu.a = 66
    /\ cpu.f = 0

(***************************************************************************)
(* Claims about SWAP (SpecIns).                                            *)
(***************************************************************************)
\* the second bytes of SWAP B, C, D, E, H, L and A after 0xCB
SwapSeconds == {48, 49, 50, 51, 52, 53, 55}

\* the register that the low three bits of an opcode name, in the CPU c
Operand(c, opcode) ==
    CASE opcode % 8 = 0 -> c.b
      [] opcode % 8 = 1 -> c.c
      [] opcode % 8 = 2 -> c.d
      [] opcode % 8 = 3 -> c.e
      [] opcode % 8 = 4 -> c.h
      [] opcode % 8 = 5 -> c.l
      [] opcode % 8 = 7 -> c.a

\* the last instruction executed was SWAP r
Swapped == Executed /\ LastOp = 203 /\ hist.second \in SwapSeconds

\* the two instructions executed were SWAP r; SWAP r, from address 0
SwappedTwice ==
    /\ Swapped
    /\ hist.ops = <<203, 203>>
    /\ hist.start.pc = 0
    /\ Peek(hist.memory0, 1) = hist.second

\* C27: SWAP r leaves in r its value with the nibbles exchanged, Z set
\* exactly when that is 0 and N, H, C clear, PC advanced by 2 and 2 machine
\* cycles on the clock; SWAP r twice leaves r as it was; CB 30 with B = 0
\* leaves B = 0 and F = 0x80.
C27_Swap ==
    /\ Swapped =>
          /\ Operand(cpu, hist.second) =
                16 * (Operand(hist.cpu0, hist.second) % 16)
                + (Operand(hist.cpu0, hist.second) \div 16)
          /\ cpu.f = IF Operand(cpu, hist.second) = 0 THEN 128 ELSE 0
          /\ cpu.pc = hist.cpu0.pc + 2
          /\ Cycles = 2
    /\ SwappedTwice => Operand(cpu, hist.second) = Operand(hist.start, hist.second)
    /\ (Swapped /\ hist.second = 48 /\ hist.cpu0.b = 0) =>
          cpu.b = 0 /\ cpu.f = 128

\* SWAP B twice from B = 0xA5 with all flags set: 0x5A, then 0xA5 again
C27_Witness ==
    /\ SwappedTwice
    /\ hist.second = 48
    /\ hist.start.b = 165 /\ hist.start.f = 240
    /\ hist.cpu0.b = 90 /\ hist.cpu0.f = 0
    /\ cpu.b = 165

(***************************************************************************)
(* SpecSp: the harness of test.rs running LD HL,SP+e; ADD SP,e for every   *)
(* byte e, SP taken from a set that has every low nibble, the nibbles 0,   *)
(* 7, 8, F above it and the high bytes 0x00 and 0xFF.                       *)
(***************************************************************************)
SpStacks == {256 * high + 16 * nibble + low : high \in {0, 255}, nibble \in {0, 7, 8, 15},
                                              low \in 0..15}
SpCalls == 2

InitSp ==
    /\ \E sp \in SpStacks, e \in 0..255 :
          Harness(<<248, e, 232, e>>, [NewCPU EXCEPT !.sp = sp], SpCalls)
    /\ overflow_checks = TRUE

SpecSp == InitSp /\ [][NextIns]_vars

(***************************************************************************)
(* Claims about ADD SP,e and LD HL,SP+e (SpecSp).                          *)
(***************************************************************************)
\* the byte e as a signed displacement
Displacement(byte) == IF byte >= 128 THEN byte - 256 ELSE byte

\* SP + e modulo 2^16, as documented
SpSum(sp, byte) == (sp + Displacement(byte)) % 65536

\* the flags as documented: Z and N clear, H the carry out of bit 3 and C
\* the carry out of bit 7 of the low byte of SP plus the byte e
SpFlags(sp, byte) ==
    (IF (sp % 16) + (byte % 16) > 15 THEN 32 ELSE 0)
    + (IF (sp % 256) + byte > 255 THEN 16 ELSE 0)

\* C28: LD HL,SP+e leaves SP + e (e signed, modulo 2^16) in HL and ADD SP,e
\* leaves it in SP; both clear Z and N and set H exactly when
\* (SP & 0xF) + (e & 0xF) > 0xF and C exactly when (SP & 0xFF) + e > 0xFF,
\* e being taken as the unsigned byte.
C28_SpOffset ==
    /\ (Executed /\ LastOp = 248) =>
          /\ bytes2word(cpu.l, cpu.h) = SpSum(hist.cpu0.sp, hist.second)
          /\ cpu.sp = hist.cpu0.sp
          /\ cpu.f = SpFlags(hist.cpu0.sp, hist.second)
    /\ (Executed /\ LastOp = 232) =>
          /\ cpu.sp = SpSum(hist.cpu0.sp, hist.second)
          /\ cpu.f = SpFlags(hist.cpu0.sp, hist.second)

\* ADD SP,-1 with SP = 0x00FF: SP = 0x00FE with H and C set, after
\* LD HL,SP-1 had left 0x00FE in HL
C28_Witness ==
    /\ Executed
    /\ hist.ops = <<248, 232>>
    /\ hist.second = 255
    /\ hist.cpu0.sp = 255
    /\ cpu.sp = 254
    /\ cpu.h = 0 /\ cpu.l = 254
    /\ cpu.f = 48

(***************************************************************************)
(* Claims about the halted CPU and about IF (SpecCPU).                     *)
(***************************************************************************)
\* the last pass of the main loop began with the halt flag set
Idled == hist.n > 0 /\ hist.cur.op = "IDLE"

DispatchedBit(flag_bytes) ==
    IF flag_bytes % 32 = 0 THEN 0
    ELSE CHOOSE bit \in {1, 2, 4, 8, 16} :
            /\ BitAnd(flag_bytes, bit) # 0
            /\ \A lower \in {1, 2, 4, 8, 16} : lower < bit => BitAnd(flag_bytes, lower) = 0

\* C30 as claimed: the interrupt-service point of a pass changes IF only by
\* clearing the bit of the interrupt it dispatches (IME set, the lowest bit
\* of IE & IF); every other bit of IF keeps its value, the bits set in IF but
\* not enabled in IE included; a pass that dispatches nothing leaves IF as
\* the service point found it.
C30_IfBits ==
    hist.n > 0 =>
        read_byte(memory, INTERRUPT_FLAG_ADDRESS) =
            IF hist.cur.svc.ime
            THEN hist.cur.svc.iflag - DispatchedBit(hist.cur.svc.pending)
            ELSE hist.cur.svc.iflag
(***************************************************************************)
(* Claims about the frame of a DMA write (SpecMem).                        *)
(***************************************************************************)
\* the addresses at which the arrays of two memories differ
Differing(m1, m2) ==
    {a \in DOMAIN m1.memory \cup DOMAIN m2.memory : Peek(m1.memory, a) # Peek(m2.memory, a)}

\* C31 as claimed: a write of n to 0xFF46 changes, besides the DMA register
\* itself, only bytes of 0xFE00-0xFE9F: the bytes of 0xFEA0-0xFEFF and of the
\* rest of the address space keep their values.
C31_DmaFrame ==
    [][(Loaded /\ ~wr.early /\ wr'.n = wr.n + 1 /\ wr'.address = DMA_ADDRESS
          /\ fault' = "none")
          => Differing(memory, memory') \subseteq
                (OAM_ADDRESS..(OAM_ADDRESS + 159)) \cup {DMA_ADDRESS}]_vars

(***************************************************************************)
(* SpecStat: the main loop of SpecPPU with the interrupt sources of STAT    *)
(* enabled before the loop: the HBLANK source alone, the OAM source alone   *)
(* with LYC on a visible line, and all four sources with LYC = 144.         *)
(***************************************************************************)
\* <<STAT, LYC>> as set up before the loop
StatSetups == {<<8, 0>>, <<32, 5>>, <<120, 144>>}

InitStat ==
    /\ cpu = NewCPU
    /\ \E setup \in StatSetups :
          memory =
             LET m0 == load_cartidge(load_boot(NewMemory, BootImage), RomOnlyImage)
                 m1 == write_byte(m0, LCD_STATUS_ADDRESS, setup[1])
             IN  write_byte(m1, LYC_ADDRESS, setup[2])
    /\ clock = NewClock
    /\ graphics = Some(without_pixels(NewGraphics))
    /\ joypad = NewJoypad
    /\ fault = "none"
    /\ overflow_checks = FALSE
    /\ incs = 0
    /\ vblanks = 0
    /\ hist = None
    /\ wr = None
    /\ frame = [start |-> 0, vbl0 |-> 0, n |-> 0]

SpecStat == InitStat /\ [][NextPPU]_vars

(***************************************************************************)
(* Claims about STAT and the LCD interrupt (SpecStat).                      *)
(***************************************************************************)
Stat == read_byte(memory, LCD_STATUS_ADDRESS)

Lyc == read_byte(memory, LYC_ADDRESS)

\* the mode of the PPU as Graphics holds it
Mode == graphics[1].last_ppu_mode.mode

\* the pass made a mode transition (render called set_ppu)
ModeTransition == graphics'[1].last_ppu_mode # graphics[1].last_ppu_mode

\* the pass updated LY (render called set_lyc)
LyUpdate ==
    /\ ModeTransition
    /\ \/ graphics'[1].line_y # graphics[1].line_y
       \/ graphics[1].last_ppu_mode = PPUMode(1, 153)

\* the interrupt source of STAT for a mode; mode 3 has none
StatEnable(mode) ==
    CASE mode = 0 -> MODE0_INT_FLAG
      [] mode = 1 -> MODE1_INT_FLAG
      [] mode = 2 -> MODE2_INT_FLAG
      [] OTHER -> 0

\* C32: on every PPU mode transition STAT bits 0-1 become the number of the
\* mode entered, STAT bits 3-7 keep their values and bit 2 is as the LY
\* update of the transition (if any) left it; the LCD bit of IF is set when
\* the enable bit of the mode entered (bit 3 for mode 0, bit 4 for mode 1,
\* bit 5 for mode 2) is set in STAT; entering mode 3 sets no bit of IF.
C32_ModeUpdate ==
    [][ModeTransition =>
          /\ BitAnd(Stat', 3) = Mode'
          /\ BitAnd(Stat', 248) = BitAnd(Stat, 248)
          /\ get_flag(Stat, LYC_EQ_LY_FLAG) => get_flag(Stat', LYC_EQ_LY_FLAG)
          /\ get_flag(Stat', LYC_EQ_LY_FLAG) =>
                \/ get_flag(Stat, LYC_EQ_LY_FLAG)
                \/ LyUpdate /\ Lyc = graphics'[1].line_y
          /\ get_flag(Stat, StatEnable(Mode')) => get_flag(IntFlag', LCD_FLAG)
          /\ Mode' = 3 => \A flag \in {VBLANK_FLAG, LCD_FLAG} :
                             get_flag(IntFlag', flag) => get_flag(IntFlag, flag)]_vars

\* HBLANK was entered with its source enabled after the program had cleared
\* IF, and the LCD interrupt is requested
C32_Witness ==
    /\ fault = "none"
    /\ Mode = 0
    /\ Stat = MODE0_INT_FLAG + LYC_EQ_LY_FLAG
    /\ IntFlag = LCD_FLAG
    /\ graphics[1].line_y = 3

\* C33 as claimed: after every LY update STAT bit 2 is 1 when LY = LYC and 0
\* when LY differs from LYC, and the LCD bit of IF is set when they are equal
\* and STAT bit 6 is set.
C33_LycCompare ==
    [][LyUpdate =>
          /\ LY' = graphics'[1].line_y
          /\ get_flag(Stat', LYC_EQ_LY_FLAG) <=> (LY' = Lyc')
          /\ (LY' = Lyc' /\ get_flag(Stat, LCY_INT_FLAG)) => get_flag(IntFlag', LCD_FLAG)]_vars

(***************************************************************************)
(* SpecObj: the main loop of SpecPix with the objects of OAM drawn as 8x16  *)
(* objects (LCDC bit 2) until the program selects 8x8 objects in the       *)
(* HBLANK of line 20, and with 8x8 objects throughout.                      *)
(***************************************************************************)
ObjSetups ==
    {PixSetup(151, <<<<20, 147>>>>, <<0, 0>>, <<0, 0>>),
     PixSetup(147, <<<<1, 147>>>>, <<0, 0>>, <<0, 0>>)}

InitObj ==
    /\ cpu = NewCPU
    /\ \E setup \in ObjSetups :
          /\ memory = write_all(load_cartidge(load_boot(NewMemory, BootImage), RomOnlyImage),
                                VideoTiles \o VideoMaps \o OamWrites \o SetupWrites(setup))
          /\ hist = [script |-> setup.script, drew |-> FALSE]
          /\ frame = [lit |-> get_flag(setup.lcdc, LCDC_ENABLE_FLAG)]
    /\ clock = NewClock
    /\ graphics = Some(NewGraphics)
    /\ joypad = NewJoypad
    /\ fault = "none"
    /\ overflow_checks = FALSE
    /\ incs = 0
    /\ vblanks = 0
    /\ wr = None

SpecObj == InitObj /\ [][NextPix]_vars

(***************************************************************************)
(* Claims about the selection of objects (SpecObj).                         *)
(***************************************************************************)
\* the height of the objects as LCDC bit 2 selects it
ObjectHeight == IF get_flag(Lcdc, OBJ_SIZE_FLAG) THEN 16 ELSE 8

\* the OAM entry is on the line, as C34 states it
OnLine(number, line) ==
    /\ 0 < oam_object(memory, number).x_pos
    /\ oam_object(memory, number).x_pos < 168
    /\ oam_object(memory, number).y_pos <= line + 16
    /\ line + 16 < oam_object(memory, number).y_pos + ObjectHeight

\* the first 10 OAM entries on the line, in OAM index order
FirstTen(line) ==
    {number \in 0..(OBJ_COUNT - 1) :
        /\ OnLine(number, line)
        /\ Cardinality({lower \in 0..(number - 1) : OnLine(lower, line)}) < 10}

\* the pixel of a selected object at the screen column x - 1 of the line, or
\* the transparent pixel where the object does not reach
ObjectPixel(number, x, line) ==
    IF x + 7 - oam_object(memory, number).x_pos \in 0..7
    THEN get_range(object_tile(memory, oam_object(memory, number)), 0,
                   line + 16 - oam_object(memory, number).y_pos)
            [x + 8 - oam_object(memory, number).x_pos]
    ELSE NoObjectPixel

\* the selected objects that have a non-transparent pixel at x
Covering(x, line) ==
    {number \in DOMAIN Pixels.obj_fifo.obj_attr : ObjectPixel(number, x, line).color_ref # 0}

\* the least of a non-empty set of numbers
Lowest(S) == CHOOSE n \in S : \A other \in S : n <= other

\* the object pixels of the line drawn: that of the lowest selected object
\* that is not transparent there
LowestIndexKept ==
    \A x \in 1..SCREEN_WIDTH :
        IF Covering(x, graphics[1].line_y) = {}
        THEN Pixels.strip[x].obp.color_ref = 0
        ELSE Pixels.strip[x].obp =
                ObjectPixel(Lowest(Covering(x, graphics[1].line_y)), x, graphics[1].line_y)

\* C34 as claimed: at each line start the objects selected are the first 10
\* OAM entries, in index order, with 0 < x_pos < 168 and
\* y_pos <= line + 16 < y_pos + h, h being 8, or 16 when LCDC bit 2 is set;
\* where selected objects overlap the non-transparent pixel of the lowest
\* OAM index is kept.
C34_Selection ==
    (hist.drew /\ get_flag(Lcdc, OBJ_ENABLE_FLAG)) =>
        /\ DOMAIN Pixels.obj_fifo.obj_attr = FirstTen(graphics[1].line_y)
        /\ LowestIndexKept

(***************************************************************************)
(* Claims about the background (SpecPix).  The tile maps and the tile data  *)
(* are read here from video memory directly, pixel by pixel.                *)
(***************************************************************************)
\* the start of the tile data of a tile number under LCDC bit 4
TileData(tile_num) ==
    IF get_flag(Lcdc, BGW_TILES_DATA_FLAG) THEN 32768 + 16 * tile_num
    ELSE IF tile_num >= 128 THEN 36864 - 16 * (256 - tile_num)
    ELSE 36864 + 16 * tile_num

\* the colour index of the pixel (px, py) of the 256 x 256 map at map_address
MapPixel(map_address, px, py) ==
    tile_row(read_byte(memory,
                 TileData(read_byte(memory, map_address + (px \div 8) + 32 * (py \div 8)))
                     + 2 * (py % 8)),
             read_byte(memory,
                 TileData(read_byte(memory, map_address + (px \div 8) + 32 * (py \div 8)))
                     + 2 * (py % 8) + 1))[1 + (px % 8)]

\* the tile maps LCDC selects for the background and for the window
BackgroundMap == IF get_flag(Lcdc, BG_TILE_MAP_FLAG) THEN 39936 ELSE 38912
WindowMap == IF get_flag(Lcdc, WINDOW_TILE_MAP_FLAG) THEN 39936 ELSE 38912

\* the screen position (x - 1, line) shows the window
InWindow(x, line) == in_window([x |-> x - 1, y |-> line], memory)

Scx == read_byte(memory, SCX_ADDRESS)
Scy == read_byte(memory, SCY_ADDRESS)

\* C35 as claimed: outside the window the background pixel at the screen
\* position (x, line) is the pixel ((x + SCX) mod 256, (line + SCY) mod 256)
\* of the background tile map.
C35_Scroll ==
    hist.drew =>
        \A x \in 1..SCREEN_WIDTH :
            ~InWindow(x, graphics[1].line_y) =>
                Pixels.strip[x].bgp.color_ref =
                    MapPixel(BackgroundMap, ((x - 1) + Scx) % 256,
                             (graphics[1].line_y + Scy) % 256)

\* C36 as claimed: while bit 0 of LCDC is clear (the LCD being on) every
\* pixel of a scanline whose source is the background is emitted in the
\* colour of index 0 (white), whatever BGP and the tile data hold.
C36_BackgroundOff ==
    (hist.drew /\ ~get_flag(Lcdc, BGW_ENABLE_FLAG) /\ get_flag(Lcdc, LCDC_ENABLE_FLAG)) =>
        \A x \in 1..SCREEN_WIDTH :
            Pixels.strip[x].pixel.pixel_source.background => Pixels.row[x] = WHITE
(***************************************************************************)
(* SpecScan: the main loop of SpecPPU (instructions of 1 to 6 cycles, the   *)
(* program clearing IF) with the pixel pipeline in the machine, over nearly *)
(* two frames; video memory is empty and LCDC is 0, as after load_boot.     *)
(***************************************************************************)
InitScan ==
    /\ cpu = NewCPU
    /\ memory = load_cartidge(load_boot(NewMemory, BootImage), RomOnlyImage)
    /\ clock = NewClock
    /\ graphics = Some(NewGraphics)
    /\ joypad = NewJoypad
    /\ fault = "none"
    /\ overflow_checks = FALSE
    /\ incs = 0
    /\ vblanks = 0
    /\ hist = None
    /\ wr = None
    /\ frame = [start |-> 0, vbl0 |-> 0, n |-> 0]

SpecScan == InitScan /\ [][NextPPU]_vars

(***************************************************************************)
(* Claims about the mode transitions render observes (SpecScan).            *)
(***************************************************************************)
\* the transitions of the match of Graphics::render, as C37 lists them
ListedTransition(last, current) ==
    \/ last.mode = 2 /\ current.mode = 3 /\ current.line = last.line
    \/ last.mode = 3 /\ current.mode = 0 /\ current.line = last.line
    \/ last.mode = 0 /\ current.mode = 2 /\ current.line = last.line + 1
    \/ last.mode = 0 /\ current.mode = 1 /\ current.line = last.line + 1
    \/ last.mode = 1 /\ current.mode = 1 /\ current.line = last.line + 1
    \/ last = PPUMode(1, 153) /\ current = PPUMode(2, 0)

\* the pass drew a scanline
Drew == graphics'[1].pixels[1].draws # graphics[1].pixels[1].draws

CacheSetups == {PixSetup(243, <<<<3, 227>>>>, <<0, 0>>, <<87, 0>>)}

InitCache ==
    /\ cpu = NewCPU
    /\ \E setup \in CacheSetups :
          /\ memory = write_all(load_cartidge(load_boot(NewMemory, BootImage), RomOnlyImage),
                                VideoTiles \o VideoMaps \o OamWrites \o SetupWrites(setup))
          /\ hist = [script |-> setup.script, drew |-> FALSE]
          /\ frame = [lit |-> get_flag(setup.lcdc, LCDC_ENABLE_FLAG)]
    /\ clock = NewClock
    /\ graphics = Some(NewGraphics)
    /\ joypad = NewJoypad
    /\ fault = "none"
    /\ overflow_checks = FALSE
    /\ incs = 0
    /\ vblanks = 0
    /\ wr = None

SpecCache == InitCache /\ [][NextPix]_vars

(***************************************************************************)
(* Claims about the tile cache of the background FIFO (SpecCache).          *)
(***************************************************************************)
\* the colour index at the screen position (x - 1, line), read from video
\* memory directly: the window map at (x - 1 + 7 - WX, line - WY) in the
\* window, the background map at (x - 1 + SCX, line + SCY) outside
DirectPixel(x, line) ==
    IF InWindow(x, line)
    THEN MapPixel(WindowMap, (x - 1) + 7 - get_viewport(memory)[1],
                  line - get_viewport(memory)[2])
    ELSE MapPixel(BackgroundMap, (x - 1) + Scx, line + Scy)

\* neither coordinate of the position wraps around the map
Unwrapped(x, line) ==
    IF InWindow(x, line) THEN TRUE ELSE (x - 1) + Scx < 255 /\ line + Scy < 255

\* C38 as claimed: for every scanline and x the pixel the background FIFO
\* emits through its tile cache is the pixel read directly from the selected
\* tile map and tile data at the time the scanline is drawn.
C38_CacheFresh ==
    hist.drew =>
        \A x \in 1..SCREEN_WIDTH :
            Unwrapped(x, graphics[1].line_y) =>
                Pixels.strip[x].bgp.color_ref = DirectPixel(x, graphics[1].line_y)
(***************************************************************************)
(* Claims about leaving the halted state (SpecCPU).                         *)
(***************************************************************************)
\* C39 as claimed: a CPU that is halted at an interrupt-service point where
\* IE & IF = 0 is still halted after it, whatever the value of IME.
C39_HaltWaits ==
    (hist.n > 0 /\ hist.cur.svc.halt /\ hist.cur.svc.pending = 0) => cpu.halt
(***************************************************************************)
(* Claims about Joypad::update with both rows selected (SpecJoy).           *)
(***************************************************************************)
\* C40 as claimed: Joypad::update, called with both selector bits of 0xFF00
\* low, leaves each of bits 0-3 at 1 unless a button of either row at that
\* bit is held; and every call leaves bits 4-7 of 0xFF00 as they were.
C40_BothRows ==
    [][hist'.op = "update"
          => /\ RowsSelected(JoypadRegister) = {"dpad", "buttons"}
                   => \A bit \in 0..3 :
                         get_flag(JoypadRegister', 2 ^ bit)
                             <=> ~(HeldAt("dpad", bit) \/ HeldAt("buttons", bit))
             /\ JoypadRegister' \div 16 = JoypadRegister \div 16]_vars

====
